---- MODULE Spec2Model ----
(***************************************************************************)
(* Arbiter: cross-exchange arbitrage engine.                               *)
(*   core/src/arbitrage.rs        ArbitrageDetector                        *)
(*   core/src/executor.rs         OrderExecutor                            *)
(*   core/src/exchange/bybit.rs   BybitConnector::subscribe_ticker         *)
(*   core/src/exchange/bitget.rs  BitgetConnector::subscribe_ticker        *)
(*   api/src/main.rs, state.rs    channel forwarders, AppState             *)
(*   api/src/ws.rs                ws_handler                               *)
(*   api/src/routes.rs            update_config                            *)
(*                                                                         *)
(* The specifications share the variables:                                 *)
(*   SpecDet   the detector tasks (one per subscription)                   *)
(*   SpecCache the detector tasks, tickers stamped with any clock reading  *)
(*   SpecExec  the executor loop, its clock and the venues' order results  *)
(*   SpecCtl   configuration updates while the engine runs                 *)
(*   SpecConn  the subscription task of each connector                     *)
(*   SpecFeed  the subscription tasks reading every kind of frame          *)
(*   SpecBeat  the subscription tasks and their heartbeat tasks            *)
(*   SpecHist  add_opportunity called more often than the history holds    *)
(*   SpecApp   the detector, the opportunity forwarder and a UI client     *)
(*   SpecPipe  connectors to trade forwarder: the whole pipeline           *)
(*   SpecStale the subscription tasks reconnecting while the detector runs *)
(*   SpecClock the executor loop under a wall clock that can step back     *)
(***************************************************************************)
EXTENDS Integers, Sequences, FiniteSets, TLC

VARIABLES
    config,         \* Config snapshot cloned into detector and executor (main.rs 76-87)
    app_config,     \* AppState.config: RwLock<Config> (state.rs 11, main.rs 40)
    \* ---- application state and the opportunity forwarder (state.rs, main.rs, ws.rs)
    opportunities,        \* Seq(Opportunity): AppState.opportunities (VecDeque)
    opportunities_count,  \* AppState.opportunities_count
    ws_clients,           \* Seq(client): AppState.ws_clients, the registered senders
    client_rx,            \* [client -> [state, inbox]]: the receiver of each client's
                          \* channel: "none" (not connected yet) | "open" | "dropped",
                          \* and the messages sent and not yet received
    fwd_taken,            \* how many opportunities the forwarder has received from opp_ch
    fwd_cur,              \* <<>> | <<Opportunity>>: the opportunity the forwarder has
                          \* recorded and not yet sent to the executor
    app_trades,           \* Seq(TradeResult): AppState.trades
    trades_count,         \* AppState.trades_count
    app_total_profit,     \* AppState.total_profit
    trade_taken,          \* how many trades the trade forwarder has received from trade_ch
    \* ---- detector (arbitrage.rs)
    sub_ch,         \* [venue -> Seq(Ticker)]: channel returned by subscribe_ticker
    det_pc,         \* [venue -> "recv" | "publish" | "check"]: position of the spawned task
    det_cur,        \* [venue -> <<>> | <<Ticker>>]: the ticker the task is processing
    prices,         \* [venue -> <<>> | <<Ticker>>]: DashMap<(Exchange, pair), Ticker>
    ticker_ch,      \* Seq(Ticker): everything sent on ticker_tx
    opp_ch,         \* Seq(Opportunity): everything sent on opportunity_tx
    evals,          \* Seq of [buy, sell, sent]: calls of evaluate_spread, in order
    uuid,           \* number of ids drawn (Uuid::new_v4)
    wire,           \* number of tickers the connectors have emitted
    \* ---- executor (executor.rs)
    opp_rx,         \* Seq(Opportunity): the executor's receiver (opp_to_exec)
    exec_pc,        \* "recv" | "join": the loop is at recv().await or at tokio::join!
    exec_opp,       \* <<>> | <<Opportunity>>: the opportunity being executed
    orders,         \* Seq of place_order calls made on connectors, each with its
                    \* result: "pending" | "ok" | "err"
    handled,        \* Seq of [id, is_actionable, outcome]: opportunities received,
                    \* in order
    trades,         \* Vec<TradeResult>: the executor's history
    trade_ch,       \* Seq(TradeResult): everything sent on trade_tx
    total_trades,   \* AtomicU64
    total_profit,   \* Decimal
    daily_loss,     \* Decimal
    last_trade_at,  \* Option<DateTime>: <<>> or <<t>>
    now,            \* the wall clock Utc::now(), in clock units
    \* ---- connector subscription tasks (bybit.rs, bitget.rs)
    conn_pc,        \* [venue -> position of the subscription task]
    rx_alive,       \* [venue -> BOOLEAN]: the ticker receiver has not been dropped
    hb_alive,       \* [venue -> set of connection numbers]: the connections whose
                    \* heartbeat task (ping_task) is running
    last_bid,       \* the local last_bid of the Bybit task (bybit.rs 123)
    last_ask,       \* the local last_ask of the Bybit task (bybit.rs 124)
    seen,           \* history: [bid, ask -> BOOLEAN], whether a frame read on the
                    \* current Bybit connection has set last_bid, last_ask
    pings,          \* [venue -> Seq of [connection, slept, frame]]: the liveness
                    \* frames the heartbeat tasks have written
    conn_log        \* [venue -> Seq(event)]: connect attempts, failures and sleeps

det_vars  == <<sub_ch, det_pc, det_cur, prices, ticker_ch, opp_ch, evals, uuid, wire>>
exec_vars == <<opp_rx, exec_pc, exec_opp, orders, handled,
               trades, trade_ch, total_trades, total_profit, daily_loss,
               last_trade_at, now>>
conn_vars == <<conn_pc, rx_alive, hb_alive, last_bid, last_ask, seen, pings, conn_log>>
trade_app_vars == <<app_trades, trades_count, app_total_profit, trade_taken>>
app_vars  == <<opportunities, opportunities_count, ws_clients, client_rx,
               fwd_taken, fwd_cur, trade_app_vars>>
vars      == <<config, app_config, app_vars, det_vars, exec_vars, conn_vars>>

---------------------------------------------------------------------------
(* Bounds of the model *)

MaxTicks == 2       \* tickers the connectors emit in a run of SpecDet
MaxOpps == 2        \* opportunities that reach the executor in a run of SpecExec
MaxTime == 3        \* last clock reading, in clock units
ClockPerMs == 2     \* clock units per millisecond (the clock is finer than 1 ms)
MaxConnEvents == 5  \* events logged per subscription task in a run of SpecConn
MaxPings == 2       \* liveness frames written per subscription in a run of SpecBeat
MaxAdds == 1002     \* calls of add_opportunity in a run of SpecHist

---------------------------------------------------------------------------
(* rust_decimal::Decimal as fixed point with two fractional digits: the     *)
(* value d is the integer d * Scale.  Prices, quantities and percentages    *)
(* are drawn from sets on which every product and quotient the code forms   *)
(* has at most two fractional digits, so Decimal arithmetic is exact there  *)
(* and the fixed-point operators below compute the same values.             *)

Scale == 10 * 10

D(n) == n * Scale

\* Decimal * Decimal
DecMul(a, b) == (a * b) \div Scale

\* Decimal / Decimal (b # 0)
DecDiv(a, b) == (a * Scale) \div b

\* Decimal::abs
DecAbs(a) == IF a < 0 THEN 0 - a ELSE a

\* dec!(100)
Hundred == D(100)

Last(s) == s[Len(s)]

RECURSIVE SumNet(_)
SumNet(s) == IF s = <<>> THEN 0 ELSE SumNet(SubSeq(s, 1, Len(s) - 1)) + Last(s).net_profit

RECURSIVE SumLoss(_)
SumLoss(s) ==
    IF s = <<>> THEN 0
    ELSE SumLoss(SubSeq(s, 1, Len(s) - 1))
         + (IF Last(s).net_profit < 0 THEN DecAbs(Last(s).net_profit) ELSE 0)

---------------------------------------------------------------------------
(* types.rs *)

Exchange == {"Bybit", "Bitget"}

\* the array `exchanges` of check_opportunities
Exchanges == <<"Bybit", "Bitget">>

\* trading.pairs of Config::default
Pair == "BTC/USDT"

\* bid and ask values a connector publishes (all > 0: bybit.rs 179, bitget.rs 173)
Quotes == {D(1), D(2)}

\* readings of Utc::now() a connector stamps a ticker with (bybit.rs 187,
\* bitget.rs 181); the wall clock can step back between two readings
Stamps == {0, 1}

\* types.rs Ticker; seq numbers the tickers in the order the connectors sent them
Ticker(v, b, a, n, ts) ==
    [exchange |-> v, pair |-> Pair, bid |-> b, ask |-> a, seq |-> n, timestamp |-> ts]

---------------------------------------------------------------------------
(* config.rs: the configurations a run starts from *)

FeeChoices == {D(0), D(60)}

Configs ==
    [ min_spread_pct    : {D(0 - 100), D(0), D(100)},
      simulation_mode   : BOOLEAN,
      fee_pct           : [Exchange -> FeeChoices],
      max_trade_qty     : {D(1), D(2)},
      order_type        : {"market", "limit", "LIMIT"},
      max_position      : {D(1)},
      max_daily_loss    : {D(1) \div 5, D(100)},
      trade_cooldown_ms : {0, 1} ]

\* the connectors built by main: one per enabled venue
connectors == Exchanges

\* connectors.iter().find(|c| c.exchange() == e).map(|c| c.fee_pct()).unwrap_or(dec!(0.1))
get_fee(cfg, e) ==
    IF \E i \in 1..Len(connectors) : connectors[i] = e
    THEN cfg.fee_pct[e]
    ELSE D(1) \div 10

---------------------------------------------------------------------------
(* arbitrage.rs: ArbitrageDetector *)

DetConfigs ==
    { c \in Configs :
        /\ c.simulation_mode
        /\ c.max_trade_qty = D(1)
        /\ c.order_type = "market"
        /\ c.max_daily_loss = D(100)
        /\ c.trade_cooldown_ms = 0 }

\* a plausible slip of the gate below: the threshold is not consulted
emission_gate_always(net_spread_pct, cfg) == TRUE

\* a plausible slip of the gate below: a net spread equal to the threshold passes
emission_gate_ge(net_spread_pct, cfg) == net_spread_pct >= cfg.min_spread_pct

\* `if net_spread_pct > config.engine.min_spread_pct`
emission_gate(net_spread_pct, cfg) == net_spread_pct > cfg.min_spread_pct

\* a plausible slip of the spread below: the difference taken relative to the
\* sell price
spread_over_sell(buy_price, sell_price) ==
    DecMul(DecDiv(sell_price - buy_price, sell_price), Hundred)

\* `((sell_price - buy_price) / buy_price) * dec!(100)`
spread(buy_price, sell_price) ==
    DecMul(DecDiv(sell_price - buy_price, buy_price), Hundred)

\* a plausible slip of the flag below: a net spread of zero counts as actionable
is_actionable_ge(net_spread_pct) == net_spread_pct >= D(0)

\* `is_actionable: net_spread_pct > Decimal::ZERO`
is_actionable(net_spread_pct) == net_spread_pct > D(0)

\* evaluate_spread: the opportunities it sends on opp_tx (none or one);
\* id is the Uuid the opportunity gets
evaluate_spread(buy_ticker, sell_ticker, cfg, id) ==
    LET buy_price  == buy_ticker.ask
        sell_price == sell_ticker.bid
    IN  IF buy_price <= 0 \/ sell_price <= 0
        THEN <<>>
        ELSE
          LET spread_pct == spread(buy_price, sell_price)
              buy_fee    == get_fee(cfg, buy_ticker.exchange)
              sell_fee   == get_fee(cfg, sell_ticker.exchange)
              total_fees == buy_fee + sell_fee
              net_spread_pct == spread_pct - total_fees
              quantity   == cfg.max_trade_qty
              potential_profit ==
                  DecMul(quantity, sell_price - buy_price)
                  - DecMul(DecMul(quantity, buy_price), DecDiv(buy_fee, Hundred))
                  - DecMul(DecMul(quantity, sell_price), DecDiv(sell_fee, Hundred))
          IN  IF emission_gate(net_spread_pct, cfg)
              THEN << [ id               |-> id,
                        pair             |-> buy_ticker.pair,
                        buy_exchange     |-> buy_ticker.exchange,
                        sell_exchange    |-> sell_ticker.exchange,
                        buy_price        |-> buy_price,
                        sell_price       |-> sell_price,
                        spread_pct       |-> spread_pct,
                        net_spread_pct   |-> net_spread_pct,
                        potential_profit |-> potential_profit,
                        quantity         |-> quantity,
                        is_actionable    |-> is_actionable(net_spread_pct) ] >>
              ELSE <<>>

\* one call of evaluate_spread as the log records it
Eval(buy_ticker, sell_ticker, cfg, id) ==
    [ buy  |-> buy_ticker,
      sell |-> sell_ticker,
      sent |-> evaluate_spread(buy_ticker, sell_ticker, cfg, id) ]

\* check_opportunities from the i-th entry of `exchanges` on: the calls of
\* evaluate_spread it makes, in order; n ids have been drawn so far
RECURSIVE check_from(_, _, _, _, _)
check_from(i, cache, incoming, cfg, n) ==
    IF i > Len(Exchanges) THEN <<>>
    ELSE
      LET other_exchange == Exchanges[i] IN
      IF other_exchange = incoming.exchange \/ cache[other_exchange] = <<>>
      THEN check_from(i + 1, cache, incoming, cfg, n)
      ELSE
        LET other_ticker == cache[other_exchange][1]
            d1 == Eval(incoming, other_ticker, cfg, n + 1)
            n1 == n + Len(d1.sent)
            d2 == Eval(other_ticker, incoming, cfg, n1 + 1)
            n2 == n1 + Len(d2.sent)
        IN  <<d1, d2>> \o check_from(i + 1, cache, incoming, cfg, n2)

\* a plausible slip of check_opportunities: only the direction that buys on
\* the incoming venue is evaluated
check_opportunities_forward(cache, incoming, cfg, n) ==
    SelectSeq(check_from(1, cache, incoming, cfg, n), LAMBDA e : e.buy = incoming)

\* a plausible slip of check_opportunities: the incoming venue is not skipped,
\* and the ticker is also compared with the cache entry of its own venue
check_opportunities_self(cache, incoming, cfg, n) ==
    check_from(1, cache, incoming, cfg, n)
    \o (IF cache[incoming.exchange] = <<>> THEN <<>>
        ELSE <<Eval(incoming, cache[incoming.exchange][1], cfg, n + 1)>>)

check_opportunities(cache, incoming, cfg, n) == check_from(1, cache, incoming, cfg, n)

RECURSIVE Sent(_)
Sent(es) == IF es = <<>> THEN <<>> ELSE es[1].sent \o Sent(Tail(es))

\* a connector sends a ticker on the subscription channel of venue v, stamped
\* with its reading ts of the wall clock
ConnEmit(v, bid, ask, ts) ==
    /\ wire < MaxTicks
    /\ wire' = wire + 1
    /\ sub_ch' = [sub_ch EXCEPT ![v] = Append(@, Ticker(v, bid, ask, wire + 1, ts))]
    /\ UNCHANGED <<config, app_config, app_vars, det_pc, det_cur, prices, ticker_ch, opp_ch, evals, uuid>>
    /\ UNCHANGED <<exec_vars, conn_vars>>

\* a plausible slip of the insert below: an entry is replaced only by a ticker
\* that is not older than it
cache_insert_if_newer(cache, ticker) ==
    IF cache[ticker.exchange] # <<>>
       /\ cache[ticker.exchange][1].timestamp > ticker.timestamp
    THEN cache
    ELSE [cache EXCEPT ![ticker.exchange] = <<ticker>>]

\* a plausible slip of the insert below: the insert also expires the entries
\* that are older than the incoming ticker
cache_insert_expiring(cache, ticker) ==
    [v \in Exchange |->
        IF v = ticker.exchange THEN <<ticker>>
        ELSE IF cache[v] # <<>> /\ cache[v][1].timestamp < ticker.timestamp THEN <<>>
        ELSE cache[v]]

\* prices.insert((ticker.exchange, pair), ticker.clone()): DashMap::insert
\* replaces the entry of the key, whatever it held
cache_insert(cache, ticker) == [cache EXCEPT ![ticker.exchange] = <<ticker>>]

\* a plausible slip of the receive below: the newest message is taken in
\* place of the oldest
recv_newest(ch) == ch[Len(ch)]

\* rx.recv().await on a channel that holds a message: the oldest one
recv(ch) == Head(ch)

\* a plausible slip of the loop body below: the ticker is checked without
\* being sent on tick_tx
DetInsert_skip_publish(v) ==
    /\ det_pc[v] = "recv"
    /\ sub_ch[v] # <<>>
    /\ LET ticker == recv(sub_ch[v]) IN
         /\ prices' = cache_insert(prices, ticker)
         /\ det_cur' = [det_cur EXCEPT ![v] = <<ticker>>]
    /\ sub_ch' = [sub_ch EXCEPT ![v] = Tail(@)]
    /\ det_pc' = [det_pc EXCEPT ![v] = "check"]
    /\ UNCHANGED <<config, app_config, app_vars, ticker_ch, opp_ch, evals, uuid, wire>>
    /\ UNCHANGED <<exec_vars, conn_vars>>

\* rx.recv().await and prices.insert(key, ticker.clone())
DetInsert(v) ==
    /\ det_pc[v] = "recv"
    /\ sub_ch[v] # <<>>
    /\ LET ticker == recv(sub_ch[v]) IN
         /\ prices' = cache_insert(prices, ticker)
         /\ det_cur' = [det_cur EXCEPT ![v] = <<ticker>>]
    /\ sub_ch' = [sub_ch EXCEPT ![v] = Tail(@)]
    /\ det_pc' = [det_pc EXCEPT ![v] = "publish"]
    /\ UNCHANGED <<config, app_config, app_vars, ticker_ch, opp_ch, evals, uuid, wire>>
    /\ UNCHANGED <<exec_vars, conn_vars>>

\* tick_tx.send(ticker.clone())
DetPublish(v) ==
    /\ det_pc[v] = "publish"
    /\ ticker_ch' = Append(ticker_ch, det_cur[v][1])
    /\ det_pc' = [det_pc EXCEPT ![v] = "check"]
    /\ UNCHANGED <<config, app_config, app_vars, sub_ch, det_cur, prices, opp_ch, evals, uuid, wire>>
    /\ UNCHANGED <<exec_vars, conn_vars>>

\* Self::check_opportunities(&prices, &ticker, ...)
DetCheck(v) ==
    /\ det_pc[v] = "check"
    /\ LET es == check_opportunities(prices, det_cur[v][1], config, uuid) IN
         /\ evals' = evals \o es
         /\ opp_ch' = opp_ch \o Sent(es)
         /\ uuid' = uuid + Len(Sent(es))
    /\ det_cur' = [det_cur EXCEPT ![v] = <<>>]
    /\ det_pc' = [det_pc EXCEPT ![v] = "recv"]
    /\ UNCHANGED <<config, app_config, app_vars, sub_ch, prices, ticker_ch, wire>>
    /\ UNCHANGED <<exec_vars, conn_vars>>

---------------------------------------------------------------------------
(* executor.rs: OrderExecutor *)

ExecConfigs ==
    { c \in Configs :
        /\ c.min_spread_pct = D(0 - 100)
        /\ c.simulation_mode => c.order_type = "market"
        /\ c.fee_pct["Bybit"] = D(0)
        /\ c.fee_pct["Bitget"] = D(60) }

\* an opportunity reaches the executor's receiver: the detector emitted it for
\* a buy ticker and a sell ticker of two venues (evaluate_spread) and the
\* forwarder of main passed it on (main.rs 100-106)
OppArrives(bv, sv, ask, bid) ==
    /\ bv # sv
    /\ uuid < MaxOpps
    /\ LET sent == evaluate_spread(Ticker(bv, ask, ask, 0, 0), Ticker(sv, bid, bid, 0, 0),
                                   config, uuid + 1)
       IN  /\ sent # <<>>
           /\ opp_rx' = Append(opp_rx, sent[1])
    /\ uuid' = uuid + 1
    /\ UNCHANGED <<config, app_config, app_vars, sub_ch, det_pc, det_cur, prices, ticker_ch, opp_ch, evals, wire>>
    /\ UNCHANGED <<exec_pc, exec_opp, orders, handled, trades,
                   trade_ch, total_trades, total_profit, daily_loss, last_trade_at, now>>
    /\ UNCHANGED conn_vars

\* the wall clock advances
Tick ==
    /\ now < MaxTime
    /\ now' = now + 1
    /\ UNCHANGED <<config, app_config, app_vars, det_vars, conn_vars>>
    /\ UNCHANGED <<opp_rx, exec_pc, exec_opp, orders, handled,
                   trades, trade_ch, total_trades, total_profit, daily_loss,
                   last_trade_at>>

\* the wall clock is set back (Utc::now() is not monotonic) to the reading t
ClockBack(t) ==
    /\ t < now
    /\ now' = t
    /\ UNCHANGED <<config, app_config, app_vars, det_vars, conn_vars>>
    /\ UNCHANGED <<opp_rx, exec_pc, exec_opp, orders, handled,
                   trades, trade_ch, total_trades, total_profit, daily_loss,
                   last_trade_at>>

\* a plausible slip of check_risk_limits: the loss limit compared with >
check_risk_limits_gt(opp, cfg, dl) ==
    IF dl > cfg.max_daily_loss THEN "daily_loss"
    ELSE IF opp.quantity > cfg.max_position THEN "position"
    ELSE "ok"

\* a plausible slip of check_risk_limits: the position comparison inverted
check_risk_limits_inverted(opp, cfg, dl) ==
    IF dl >= cfg.max_daily_loss THEN "daily_loss"
    ELSE IF opp.quantity < cfg.max_position THEN "position"
    ELSE "ok"

\* check_risk_limits: "ok" or the reason of the Err
check_risk_limits(opp, cfg, dl) ==
    IF dl >= cfg.max_daily_loss THEN "daily_loss"
    ELSE IF opp.quantity > cfg.max_position THEN "position"
    ELSE "ok"

\* Duration::num_milliseconds: whole milliseconds, truncated toward zero
num_milliseconds(d) == IF d >= 0 THEN d \div ClockPerMs ELSE 0 - ((0 - d) \div ClockPerMs)

\* `as u64` of an i64: a negative value wraps to 2^64 + x.  Values of 2^63 and
\* more are represented by 2^31 + x, above every cooldown of the model.
as_u64(x) == IF x >= 0 THEN x ELSE 2147483647 + x + 1

\* a plausible slip of the cooldown check: the elapsed time taken in clock
\* units, not in milliseconds
in_cooldown_units(last, t, cfg) ==
    /\ last # <<>>
    /\ as_u64(t - last[1]) < cfg.trade_cooldown_ms

\* the cooldown check of start: TRUE when the opportunity is skipped
in_cooldown(last, t, cfg) ==
    /\ last # <<>>
    /\ as_u64(num_milliseconds(t - last[1])) < cfg.trade_cooldown_ms

\* connectors.iter().find(|c| c.exchange() == e): <<>> or <<connector>>
find_connector(e) ==
    IF \E i \in 1..Len(connectors) : connectors[i] = e THEN <<e>> ELSE <<>>

\* `if self.config.trading.order_type == "limit"`
\* a plausible slip of the test below: the comparison ignores the case
order_type_any_case(cfg) ==
    IF cfg.order_type \in {"limit", "LIMIT"} THEN "Limit" ELSE "Market"

order_type_of(cfg) == IF cfg.order_type = "limit" THEN "Limit" ELSE "Market"

\* a plausible slip of the match below: a single filled leg counts as a
\* failure
trade_status_strict(buy, sell) ==
    IF buy = "ok" /\ sell = "ok" THEN "Filled" ELSE "Failed"

\* a plausible slip of the status match: the (Err, Ok) arm forgotten
trade_status_buy_only(buy, sell) ==
    IF buy = "ok" /\ sell = "ok" THEN "Filled"
    ELSE IF buy = "ok" THEN "PartialFill"
    ELSE "Failed"

\* the status execute_trade computes from the two order results
trade_status(buy, sell) ==
    IF buy = "ok" /\ sell = "ok" THEN "Filled"
    ELSE IF buy = "ok" \/ sell = "ok" THEN "PartialFill"
    ELSE "Failed"

\* a plausible slip of the builder below: both fee rates are charged on the
\* buy notional
TradeResult_buy_notional(opp, cfg, status, t) ==
    LET buy_fee  == get_fee(cfg, opp.buy_exchange)
        sell_fee == get_fee(cfg, opp.sell_exchange)
        gross_profit == DecMul(opp.quantity, opp.sell_price - opp.buy_price)
        fees == DecMul(DecMul(opp.quantity, opp.buy_price), DecDiv(buy_fee, Hundred))
                + DecMul(DecMul(opp.quantity, opp.buy_price), DecDiv(sell_fee, Hundred))
    IN  [ opportunity_id |-> opp.id,
          pair           |-> opp.pair,
          buy_exchange   |-> opp.buy_exchange,
          sell_exchange  |-> opp.sell_exchange,
          buy_price      |-> opp.buy_price,
          sell_price     |-> opp.sell_price,
          quantity       |-> opp.quantity,
          gross_profit   |-> gross_profit,
          fees           |-> fees,
          net_profit     |-> gross_profit - fees,
          status         |-> status,
          executed_at    |-> t ]

\* the TradeResult execute_trade builds (simulated and live compute the same
\* amounts: get_fee and the connector's fee_pct read the same rate)
TradeResult(opp, cfg, status, t) ==
    LET buy_fee  == get_fee(cfg, opp.buy_exchange)
        sell_fee == get_fee(cfg, opp.sell_exchange)
        gross_profit == DecMul(opp.quantity, opp.sell_price - opp.buy_price)
        fees == DecMul(DecMul(opp.quantity, opp.buy_price), DecDiv(buy_fee, Hundred))
                + DecMul(DecMul(opp.quantity, opp.sell_price), DecDiv(sell_fee, Hundred))
    IN  [ opportunity_id |-> opp.id,
          pair           |-> opp.pair,
          buy_exchange   |-> opp.buy_exchange,
          sell_exchange  |-> opp.sell_exchange,
          buy_price      |-> opp.buy_price,
          sell_price     |-> opp.sell_price,
          quantity       |-> opp.quantity,
          gross_profit   |-> gross_profit,
          fees           |-> fees,
          net_profit     |-> gross_profit - fees,
          status         |-> status,
          executed_at    |-> t ]

\* one place_order call, not yet answered
Order(opp, e, side, cfg, price) ==
    [ opp |-> opp.id, exchange |-> e, side |-> side, order_type |-> order_type_of(cfg),
      quantity |-> opp.quantity, price |-> price, result |-> "pending" ]

\* buy_connector.place_order(&opp.pair, OrderSide::Buy, order_type,
\* opp.quantity, Some(opp.buy_price))
buy_future(opp, cfg) ==
    Order(opp, find_connector(opp.buy_exchange)[1], "Buy", cfg, opp.buy_price)

\* a plausible slip of the call below: the sell order goes to the buy venue
sell_future_buy_venue(opp, cfg) ==
    Order(opp, find_connector(opp.buy_exchange)[1], "Sell", cfg, opp.sell_price)

\* sell_connector.place_order(&opp.pair, OrderSide::Sell, order_type,
\* opp.quantity, Some(opp.sell_price))
sell_future(opp, cfg) ==
    Order(opp, find_connector(opp.sell_exchange)[1], "Sell", cfg, opp.sell_price)

\* the result of the place_order call of opportunity id on the given side
LegResult(ords, id, side) ==
    LET i == CHOOSE i \in 1..Len(ords) : ords[i].opp = id /\ ords[i].side = side
    IN  ords[i].result

\* a plausible slip of the join below: it returns when either leg is answered
\* (a select in place of a join)
join_any(buy, sell) == buy # "pending" \/ sell # "pending"

\* tokio::join!(buy_future, sell_future) returns when both legs are answered
join(buy, sell) == buy # "pending" /\ sell # "pending"

\* a plausible slip of the arm below: the loss added without abs()
Record_no_abs(trade, t2) ==
    /\ total_trades' = total_trades + 1
    /\ total_profit' = total_profit + trade.net_profit
    /\ daily_loss' = IF trade.net_profit < D(0)
                     THEN daily_loss + trade.net_profit
                     ELSE daily_loss
    /\ last_trade_at' = <<t2>>
    /\ trades' = Append(trades, trade)
    /\ trade_ch' = Append(trade_ch, trade)
    /\ now' = t2

\* the Ok(trade) arm of start (executor.rs 86-96): counters, history, broadcast;
\* the trade was built at trade.executed_at and last_trade_at is read at t2
Record(trade, t2) ==
    /\ total_trades' = total_trades + 1
    /\ total_profit' = total_profit + trade.net_profit
    /\ daily_loss' = IF trade.net_profit < D(0)
                     THEN daily_loss + DecAbs(trade.net_profit)
                     ELSE daily_loss
    /\ last_trade_at' = <<t2>>
    /\ trades' = Append(trades, trade)
    /\ trade_ch' = Append(trade_ch, trade)
    /\ now' = t2

NoRecord ==
    UNCHANGED <<total_trades, total_profit, daily_loss, last_trade_at, trades,
                trade_ch, now>>

\* a plausible slip of the test below: two failed legs still yield a trade
\* (with the status Failed)
both_failed_never(buy, sell) == FALSE

\* `if let (Err(ref e1), Err(ref e2)) = (&buy_result, &sell_result)`:
\* execute_trade returns Err
both_failed(buy, sell) == buy # "ok" /\ sell # "ok"

\* a plausible slip of the branch below: the simulation flag is not consulted
simulated_never(cfg) == FALSE

\* `if self.config.engine.simulation_mode`
simulated(cfg) == cfg.simulation_mode

\* a plausible slip of the gate below: the is_actionable flag is not consulted
gate_any(opp, cfg, dl, last, t) ==
    IF check_risk_limits(opp, cfg, dl) # "ok" THEN check_risk_limits(opp, cfg, dl)
    ELSE IF in_cooldown(last, t, cfg) THEN "cooldown"
    ELSE "execute"

\* why start skips an opportunity before execute_trade, or "execute"
gate(opp, cfg, dl, last, t) ==
    IF ~opp.is_actionable THEN "not_actionable"
    ELSE IF check_risk_limits(opp, cfg, dl) # "ok" THEN check_risk_limits(opp, cfg, dl)
    ELSE IF in_cooldown(last, t, cfg) THEN "cooldown"
    ELSE "execute"

\* the entry of the log `handled` for a received opportunity
Handled(opp, outcome) ==
    [id |-> opp.id, is_actionable |-> opp.is_actionable, outcome |-> outcome]

\* one iteration of the loop of start, from recv().await to the next
\* suspension: the whole iteration when the opportunity is skipped or the
\* trade is simulated, up to tokio::join! when live orders are dispatched.
\* d1 and d2: how far the clock moves before executed_at and before
\* last_trade_at are read.
ExecRecv(d1, d2) ==
    /\ exec_pc = "recv"
    /\ opp_rx # <<>>
    /\ now + d1 + d2 <= MaxTime
    /\ LET opp == Head(opp_rx)
           g   == gate(opp, config, daily_loss, last_trade_at, now)
       IN
       /\ opp_rx' = Tail(opp_rx)
       /\ IF g # "execute"
          THEN /\ d1 = 0 /\ d2 = 0
               /\ handled' = Append(handled, Handled(opp, g))
               /\ NoRecord
               /\ UNCHANGED <<exec_pc, exec_opp, orders>>
          ELSE IF simulated(config)
          THEN /\ handled' = Append(handled, Handled(opp, "Filled"))
               /\ Record(TradeResult(opp, config, "Filled", now + d1), now + d1 + d2)
               /\ UNCHANGED <<exec_pc, exec_opp, orders>>
          ELSE IF find_connector(opp.buy_exchange) = <<>>
                  \/ find_connector(opp.sell_exchange) = <<>>
          THEN /\ d1 = 0 /\ d2 = 0
               /\ handled' = Append(handled, Handled(opp, "no_connector"))
               /\ NoRecord
               /\ UNCHANGED <<exec_pc, exec_opp, orders>>
          ELSE /\ d1 = 0 /\ d2 = 0
               /\ handled' = Append(handled, Handled(opp, "dispatched"))
               /\ orders' = orders \o <<buy_future(opp, config), sell_future(opp, config)>>
               /\ exec_opp' = <<opp>>
               /\ exec_pc' = "join"
               /\ NoRecord
    /\ UNCHANGED <<config, app_config, app_vars, det_vars, conn_vars>>

\* the venue answers the i-th place_order call: it returns Ok or Err
OrderDone(i, res) ==
    /\ i \in 1..Len(orders)
    /\ orders[i].result = "pending"
    /\ orders' = [orders EXCEPT ![i].result = res]
    /\ UNCHANGED <<config, app_config, app_vars, det_vars, conn_vars>>
    /\ UNCHANGED <<opp_rx, exec_pc, exec_opp, handled, trades,
                   trade_ch, total_trades, total_profit, daily_loss, last_trade_at, now>>

\* tokio::join! returns: execute_trade finishes and start records the result
ExecJoin(d1, d2) ==
    /\ exec_pc = "join"
    /\ now + d1 + d2 <= MaxTime
    /\ LET opp         == exec_opp[1]
           buy_result  == LegResult(orders, opp.id, "Buy")
           sell_result == LegResult(orders, opp.id, "Sell")
           status      == trade_status(buy_result, sell_result)
       IN  /\ join(buy_result, sell_result)
           /\ IF both_failed(buy_result, sell_result)
              THEN /\ d1 = 0 /\ d2 = 0
                   /\ handled' = [handled EXCEPT ![Len(handled)].outcome = "both_failed"]
                   /\ NoRecord
              ELSE /\ handled' = [handled EXCEPT ![Len(handled)].outcome = status]
                   /\ Record(TradeResult(opp, config, status, now + d1), now + d1 + d2)
    /\ exec_pc' = "recv"
    /\ exec_opp' = <<>>
    /\ UNCHANGED <<opp_rx, orders>>
    /\ UNCHANGED <<config, app_config, app_vars, det_vars, conn_vars>>

---------------------------------------------------------------------------
(* exchange/bybit.rs, exchange/bitget.rs: the task spawned by subscribe_ticker *)
(* Positions of the task: "connecting" (connect_async), "subscribing" (the    *)
(* subscribe frame is being written), "receiving" (read.next()), "backoff"    *)
(* (the 1 s sleep at the end of the loop body), "terminated" (the task ended). *)
(* conn_log records "connect" for each call of connect_async, the failures,   *)
(* "ticker" for each ticker sent and "sleep" for each completed 1 s sleep.    *)

\* where the Bybit task goes when writing the subscribe frame fails: `continue`
bybit_on_write_failure == "connecting"

\* where the Bitget task goes when writing the subscribe frame fails: `break`
\* leaves the enclosing `loop`, and the task ends
bitget_on_write_failure == "terminated"

on_write_failure(v) ==
    IF v = "Bybit" THEN bybit_on_write_failure ELSE bitget_on_write_failure

CanLog(v) == Len(conn_log[v]) < MaxConnEvents

Log(v, events) == conn_log' = [conn_log EXCEPT ![v] = @ \o events]

Goto(v, pc) == conn_pc' = [conn_pc EXCEPT ![v] = pc]

\* the events logged on arriving at a position: connect_async is called at
\* the top of the loop
Arrive(pc) == IF pc = "connecting" THEN <<"connect">> ELSE <<>>

\* the number of the connection the task of venue v is at: the calls of
\* connect_async it has made
Connection(v) == Cardinality({i \in 1..Len(conn_log[v]) : conn_log[v][i] = "connect"})

\* a plausible slip of the abort below: the handle is dropped without abort,
\* which detaches the task and leaves it running
abort_detach(tasks, c) == tasks

\* ping_task.abort(): the heartbeat task of connection c stops (nothing
\* happens when it has ended by itself)
abort(tasks, c) == tasks \ {c}

\* connect_async returns Ok
ConnectOk(v) ==
    /\ conn_pc[v] = "connecting"
    /\ Goto(v, "subscribing")
    /\ UNCHANGED <<config, app_config, app_vars, det_vars, exec_vars, rx_alive, hb_alive,
                   last_bid, last_ask, seen, pings, conn_log>>

\* connect_async returns Err: falls to the sleep at the end of the loop body
ConnectFail(v) ==
    /\ conn_pc[v] = "connecting"
    /\ CanLog(v)
    /\ Goto(v, "backoff")
    /\ Log(v, <<"connect_failed">>)
    /\ UNCHANGED <<config, app_config, app_vars, det_vars, exec_vars, rx_alive, hb_alive,
                   last_bid, last_ask, seen, pings>>

\* a plausible slip of the step below: last_bid and last_ask are declared
\* before the reconnection loop, so they outlive the connection
SubscribeOk_keep_tracked(v) ==
    /\ conn_pc[v] = "subscribing"
    /\ Goto(v, "receiving")
    /\ hb_alive' = [hb_alive EXCEPT ![v] = @ \cup {Connection(v)}]
    /\ seen' = IF v = "Bybit" THEN [bid |-> FALSE, ask |-> FALSE] ELSE seen
    /\ UNCHANGED <<config, app_config, app_vars, det_vars, exec_vars, rx_alive,
                   last_bid, last_ask, pings, conn_log>>

\* the subscribe frame is written; the heartbeat task is spawned and (Bybit)
\* last_bid and last_ask are declared as zero
SubscribeOk(v) ==
    /\ conn_pc[v] = "subscribing"
    /\ Goto(v, "receiving")
    /\ hb_alive' = [hb_alive EXCEPT ![v] = @ \cup {Connection(v)}]
    /\ IF v = "Bybit"
       THEN last_bid' = D(0) /\ last_ask' = D(0)
       ELSE UNCHANGED <<last_bid, last_ask>>
    /\ seen' = IF v = "Bybit" THEN [bid |-> FALSE, ask |-> FALSE] ELSE seen
    /\ UNCHANGED <<config, app_config, app_vars, det_vars, exec_vars, rx_alive, pings, conn_log>>

\* write.send of the subscribe frame returns Err
SubscribeFail(v) ==
    /\ conn_pc[v] = "subscribing"
    /\ CanLog(v)
    /\ Goto(v, on_write_failure(v))
    /\ Log(v, <<"write_failed">> \o Arrive(on_write_failure(v)))
    /\ UNCHANGED <<config, app_config, app_vars, det_vars, exec_vars, rx_alive, hb_alive,
                   last_bid, last_ask, seen, pings>>

\* Duration::from_secs(20) of the Bybit heartbeat
bybit_ping_secs == 20

\* Duration::from_secs(25) of the Bitget heartbeat
bitget_ping_secs == 25

\* the sleep of the heartbeat loop, in seconds
ping_secs(v) == IF v = "Bybit" THEN bybit_ping_secs ELSE bitget_ping_secs

\* the text of the liveness frame: serde_json::json!({"op": "ping"}) as a
\* string for Bybit, "ping" for Bitget
ping_frame(v) == IF v = "Bybit" THEN "{\"op\":\"ping\"}" ELSE "ping"

\* one turn of the heartbeat loop of a running task: the sleep completes and
\* the liveness frame is written
HeartbeatPing(v) ==
    /\ Len(pings[v]) < MaxPings
    /\ \E c \in hb_alive[v] :
         pings' = [pings EXCEPT ![v] = Append(@, [connection |-> c,
                                                   slept      |-> ping_secs(v),
                                                   frame      |-> ping_frame(v)])]
    /\ UNCHANGED <<config, app_config, app_vars, det_vars, exec_vars, conn_pc, rx_alive, hb_alive,
                   last_bid, last_ask, seen, conn_log>>

\* the heartbeat task of a connection fails to write its ping and breaks out
\* of its loop
HeartbeatEnds(v) ==
    /\ \E c \in hb_alive[v] : hb_alive' = [hb_alive EXCEPT ![v] = @ \ {c}]
    /\ UNCHANGED <<config, app_config, app_vars, det_vars, exec_vars, conn_pc, rx_alive,
                   last_bid, last_ask, seen, pings, conn_log>>

\* str::parse::<Decimal> on the strings of the wire: Err is <<>>, Ok(d) is <<d>>
parse(str) ==
    CASE str = "0" -> <<D(0)>>
      [] str = "1" -> <<D(1)>>
      [] str = "2" -> <<D(2)>>
      [] OTHER     -> <<>>

\* a frame's field carries a quote: it is present, parses and is above zero
received(field) ==
    field # <<>> /\ parse(field[1]) # <<>> /\ parse(field[1])[1] > D(0)

\* the tracked value after a frame whose field (None is <<>>, Some(s) is <<s>>)
\* is present: updated only when the field parses and is above zero
tracked(prev, field) ==
    IF field # <<>> /\ parse(field[1]) # <<>> /\ parse(field[1])[1] > D(0)
    THEN parse(field[1])[1]
    ELSE prev

\* `if last_bid > ZERO { last_bid } else { last }` (and the same for the ask):
\* lastPrice stands in for a side that has no tracked value
fallback(own, last) == IF own > D(0) THEN own ELSE last

\* a plausible slip of the guard below: one positive side is enough
publishable_any(bid, ask) == bid > D(0) \/ ask > D(0)

\* `if bid > Decimal::ZERO && ask > Decimal::ZERO`
publishable(bid, ask) == bid > D(0) /\ ask > D(0)

\* tx.send(ticker) for each of the tickers in turn.  When the receiver is
\* alive they enter the subscription channel; when it was dropped the first
\* send fails, the heartbeat is aborted and the task returns.
Send(v, tickers, ts) ==
    IF tickers = <<>>
    THEN UNCHANGED <<sub_ch, wire, conn_pc, hb_alive, conn_log>>
    ELSE /\ CanLog(v)
         /\ IF rx_alive[v]
            THEN /\ wire + Len(tickers) <= MaxTicks
                 /\ sub_ch' = [sub_ch EXCEPT ![v] = @ \o
                       [k \in 1..Len(tickers) |->
                           Ticker(v, tickers[k].bid, tickers[k].ask, wire + k, ts)]]
                 /\ wire' = wire + Len(tickers)
                 /\ Log(v, <<"ticker">>)
                 /\ UNCHANGED <<conn_pc, hb_alive>>
            ELSE /\ Goto(v, "terminated")
                 /\ hb_alive' = [hb_alive EXCEPT ![v] = abort(@, Connection(v))]
                 /\ Log(v, <<"receiver_gone">>)
                 /\ UNCHANGED <<sub_ch, wire>>

\* the text frames of the Bybit stream: control frames (they contain "op",
\* "pong" or "ret_msg"), text that is not JSON, and data frames, of which bid
\* is the first string among data.bid1Price, bidPrice, bid1 (ask alike) and
\* last is data.lastPrice
BybitFrames ==
    [kind : {"control", "not_json"}, bid : {<<>>}, ask : {<<>>}, last : {<<>>}]
    \cup [kind : {"data"},
          bid  : {<<>>, <<"0">>, <<"1">>},
          ask  : {<<>>, <<"abc">>, <<"1">>},
          last : {<<>>, <<"abc">>, <<"2">>}]

\* a complete frame
BybitFull == [kind |-> "data", bid |-> <<"1">>, ask |-> <<"1">>, last |-> <<"2">>]

\* Bybit: read.next() yields Ok(Message::Text(text))
BybitText(frame, ts) ==
    /\ conn_pc["Bybit"] = "receiving"
    /\ IF frame.kind # "data"
       THEN UNCHANGED <<sub_ch, wire, conn_pc, hb_alive, last_bid, last_ask, seen, conn_log>>
       ELSE LET last == IF frame.last = <<>> \/ parse(frame.last[1]) = <<>>
                        THEN D(0) ELSE parse(frame.last[1])[1]
                b    == tracked(last_bid, frame.bid)
                a    == tracked(last_ask, frame.ask)
                bid  == fallback(b, last)
                ask  == fallback(a, last)
            IN  /\ last_bid' = b
                /\ last_ask' = a
                /\ seen' = [bid |-> seen.bid \/ received(frame.bid),
                            ask |-> seen.ask \/ received(frame.ask)]
                /\ Send("Bybit", IF publishable(bid, ask)
                                 THEN <<[bid |-> bid, ask |-> ask]>> ELSE <<>>, ts)
    /\ UNCHANGED <<config, app_config, app_vars, det_pc, det_cur, prices, ticker_ch, opp_ch,
                   evals, uuid, exec_vars, rx_alive, pings>>

\* the items of the data array of a Bitget frame: bid is the first string
\* among bidPr, bestBid (ask alike)
BitgetItems == [bid : {<<>>, <<"0">>, <<"1">>}, ask : {<<>>, <<"abc">>, <<"2">>}]

\* the text frames of the Bitget stream: control frames ("pong", or text that
\* contains "event" or "op"), text that is not JSON or whose data is not an
\* array, and data frames with an array of items
BitgetFrames ==
    [kind : {"control", "not_json", "no_array"}, data : {<<>>}]
    \cup [kind : {"data"},
          data : {<<>>} \cup {<<i>> : i \in BitgetItems}
                 \cup {<<i, j>> : i, j \in [bid : {<<"0">>, <<"1">>}, ask : {<<"2">>}]}]

\* a frame with one complete item
BitgetFull == [kind |-> "data", data |-> <<[bid |-> <<"1">>, ask |-> <<"2">>]>>]

\* `item[..].as_str().or_else(..).unwrap_or("0")` and `.parse().unwrap_or(ZERO)`
bitget_price(field) ==
    LET str == IF field = <<>> THEN "0" ELSE field[1]
    IN  IF parse(str) = <<>> THEN D(0) ELSE parse(str)[1]

\* the tickers the `for item in arr` loop sends, in order
RECURSIVE bitget_tickers(_)
bitget_tickers(arr) ==
    IF arr = <<>> THEN <<>>
    ELSE LET bid == bitget_price(arr[1].bid)
             ask == bitget_price(arr[1].ask)
         IN  (IF publishable(bid, ask) THEN <<[bid |-> bid, ask |-> ask]>> ELSE <<>>)
             \o bitget_tickers(Tail(arr))

\* Bitget: read.next() yields Ok(Message::Text(text))
BitgetText(frame, ts) ==
    /\ conn_pc["Bitget"] = "receiving"
    /\ IF frame.kind # "data"
       THEN UNCHANGED <<sub_ch, wire, conn_pc, hb_alive, conn_log>>
       ELSE Send("Bitget", bitget_tickers(frame.data), ts)
    /\ UNCHANGED <<config, app_config, app_vars, det_pc, det_cur, prices, ticker_ch, opp_ch,
                   evals, uuid, exec_vars, rx_alive, last_bid, last_ask, seen, pings>>

\* read.next() yields Err (`break`) or None (the socket closed): the
\* heartbeat is aborted and the task falls to the sleep
SocketDown(v, event) ==
    /\ conn_pc[v] = "receiving"
    /\ CanLog(v)
    /\ Goto(v, "backoff")
    /\ hb_alive' = [hb_alive EXCEPT ![v] = abort(@, Connection(v))]
    /\ Log(v, <<event>>)
    /\ UNCHANGED <<config, app_config, app_vars, det_vars, exec_vars, rx_alive, last_bid, last_ask, seen, pings>>

\* tokio::time::sleep(1 s) completes and the loop starts over
SleepDone(v) ==
    /\ conn_pc[v] = "backoff"
    /\ CanLog(v)
    /\ Goto(v, "connecting")
    /\ Log(v, <<"sleep">> \o Arrive("connecting"))
    /\ UNCHANGED <<config, app_config, app_vars, det_vars, exec_vars, rx_alive, hb_alive,
                   last_bid, last_ask, seen, pings>>

\* the consumer of the subscription drops its receiver
DropReceiver(v) ==
    /\ rx_alive[v]
    /\ rx_alive' = [rx_alive EXCEPT ![v] = FALSE]
    /\ UNCHANGED <<config, app_config, app_vars, det_vars, exec_vars, conn_pc, hb_alive,
                   last_bid, last_ask, seen, pings, conn_log>>

---------------------------------------------------------------------------
(* api/src/routes.rs: update_config, the handler of POST /api/config *)

\* an f64 of a request body: NaN, or a whole number
NaN == [finite |-> FALSE, value |-> 0]

F64(n) == [finite |-> TRUE, value |-> n]

\* Decimal::from_f64_retain: None (<<>>) for a value that is not finite, the
\* exact value of the f64 otherwise (a whole number has no binary fraction)
from_f64_retain(x) == IF x.finite THEN <<D(x.value)>> ELSE <<>>

\* Option::unwrap_or
unwrap_or(opt, default) == IF opt = <<>> THEN default ELSE opt[1]

\* ConfigUpdate: each field is None (<<>>) or Some(value)
ConfigUpdate ==
    [ min_spread_pct  : {<<>>} \cup {<<x>> : x \in {NaN, F64(0), F64(100)}},
      max_trade_qty   : {<<>>} \cup {<<x>> : x \in {NaN, F64(2)}},
      simulation_mode : {<<>>} \cup {<<b>> : b \in BOOLEAN} ]

\* the configuration update_config leaves in AppState
updated(cfg, body) ==
    [ cfg EXCEPT
        !.min_spread_pct =
            IF body.min_spread_pct = <<>> THEN @
            ELSE unwrap_or(from_f64_retain(body.min_spread_pct[1]), @),
        !.max_trade_qty =
            IF body.max_trade_qty = <<>> THEN @
            ELSE unwrap_or(from_f64_retain(body.max_trade_qty[1]), @),
        !.simulation_mode =
            IF body.simulation_mode = <<>> THEN @ ELSE body.simulation_mode[1] ]

\* update_config: state.config.write() and the assignments to it; the clones
\* held by the detector and by the executor are other objects
UpdateConfig(body) ==
    /\ app_config' = updated(app_config, body)
    /\ UNCHANGED <<config, app_vars, det_vars, exec_vars, conn_vars>>

---------------------------------------------------------------------------
(* api/src/state.rs, api/src/ws.rs, api/src/main.rs: the opportunity history, *)
(* the UI clients and the task that forwards opportunities to the executor    *)

\* the connections of UI clients to /ws: one stands for all, the broadcast
\* treats each registered sender alike
Client == {"ui"}

\* `while opps.len() > 1000`
opportunities_cap == 1000

\* WsMessage::Opportunity(opp) as the clients see it
OpportunityMsg(opp) == [type |-> "opportunity", id |-> opp.id]

\* a plausible slip of the broadcast below: the client channels hold one
\* message, and the send waits while a registered client has not taken its
\* last one
broadcast_bounded(msg) ==
    /\ \A k \in 1..Len(ws_clients) : client_rx[ws_clients[k]].inbox = <<>>
    /\ ws_clients' = SelectSeq(ws_clients, LAMBDA c : client_rx[c].state = "open")
    /\ client_rx' = [c \in Client |->
                       IF (\E k \in 1..Len(ws_clients) : ws_clients[k] = c)
                          /\ client_rx[c].state = "open"
                       THEN [client_rx[c] EXCEPT !.inbox = Append(@, msg)]
                       ELSE client_rx[c]]

\* broadcast: clients.retain(|tx| tx.send(json.clone()).is_ok()); a send on an
\* unbounded channel succeeds at once while the receiver exists and fails
\* when it was dropped
broadcast(msg) ==
    /\ ws_clients' = SelectSeq(ws_clients, LAMBDA c : client_rx[c].state = "open")
    /\ client_rx' = [c \in Client |->
                       IF (\E k \in 1..Len(ws_clients) : ws_clients[k] = c)
                          /\ client_rx[c].state = "open"
                       THEN [client_rx[c] EXCEPT !.inbox = Append(@, msg)]
                       ELSE client_rx[c]]

\* a plausible slip of the loop below: the newest entries are dropped
\* (pop_back in place of pop_front)
trim_newest(opps) ==
    IF Len(opps) > opportunities_cap THEN SubSeq(opps, 1, opportunities_cap) ELSE opps

\* `while opps.len() > 1000 { opps.pop_front(); }`
trim(opps) ==
    IF Len(opps) > opportunities_cap
    THEN SubSeq(opps, Len(opps) - opportunities_cap + 1, Len(opps))
    ELSE opps

\* a plausible slip of add_opportunity below: the counter is not incremented
add_opportunity_uncounted(opp) ==
    /\ opportunities_count' = opportunities_count
    /\ broadcast(OpportunityMsg(opp))
    /\ opportunities' = trim(Append(opportunities, opp))

\* AppState::add_opportunity
add_opportunity(opp) ==
    /\ opportunities_count' = opportunities_count + 1
    /\ broadcast(OpportunityMsg(opp))
    /\ opportunities' = trim(Append(opportunities, opp))

\* one call of add_opportunity with a fresh opportunity
AddOpportunity(ask, bid) ==
    /\ opportunities_count < MaxAdds
    /\ LET sent == evaluate_spread(Ticker("Bybit", ask, ask, 0, 0),
                                   Ticker("Bitget", bid, bid, 0, 0),
                                   config, opportunities_count + 1)
       IN  /\ sent # <<>>
           /\ add_opportunity(sent[1])
    /\ UNCHANGED <<config, app_config, fwd_taken, fwd_cur, trade_app_vars, det_vars,
                   exec_vars, conn_vars>>

\* the forwarder task of main: opp_rx.recv() returns the next opportunity the
\* detector sent and state.add_opportunity(opp.clone()).await records it
FwdRecord ==
    /\ fwd_cur = <<>>
    /\ fwd_taken < Len(opp_ch)
    /\ add_opportunity(opp_ch[fwd_taken + 1])
    /\ fwd_cur' = <<opp_ch[fwd_taken + 1]>>
    /\ fwd_taken' = fwd_taken + 1
    /\ UNCHANGED <<config, app_config, trade_app_vars, det_vars, exec_vars, conn_vars>>

\* the forwarder task of main: `let _ = opp_to_exec_tx.send(opp)`
FwdSend ==
    /\ fwd_cur # <<>>
    /\ opp_rx' = Append(opp_rx, fwd_cur[1])
    /\ fwd_cur' = <<>>
    /\ UNCHANGED <<config, app_config, opportunities, opportunities_count, ws_clients,
                   client_rx, fwd_taken, trade_app_vars, det_vars, conn_vars>>
    /\ UNCHANGED <<exec_pc, exec_opp, orders, handled, trades, trade_ch, total_trades,
                   total_profit, daily_loss, last_trade_at, now>>

\* ws_handler: a UI client connects and its sender is registered
WsConnect(c) ==
    /\ client_rx[c].state = "none"
    /\ ws_clients' = Append(ws_clients, c)
    /\ client_rx' = [client_rx EXCEPT ![c].state = "open"]
    /\ UNCHANGED <<config, app_config, opportunities, opportunities_count, fwd_taken,
                   fwd_cur, trade_app_vars, det_vars, exec_vars, conn_vars>>

\* the task ws_handler spawns for a client: rx.recv() returns a message and
\* session.text(msg) succeeds
WsDeliver(c) ==
    /\ client_rx[c].state = "open"
    /\ client_rx[c].inbox # <<>>
    /\ client_rx' = [client_rx EXCEPT ![c].inbox = Tail(@)]
    /\ UNCHANGED <<config, app_config, opportunities, opportunities_count, ws_clients,
                   fwd_taken, fwd_cur, trade_app_vars, det_vars, exec_vars, conn_vars>>

\* the task ws_handler spawns for a client: session.text(msg) fails (the client
\* is gone), the task breaks out of its loop and the receiver is dropped
WsGone(c) ==
    /\ client_rx[c].state = "open"
    /\ client_rx[c].inbox # <<>>
    /\ client_rx' = [client_rx EXCEPT ![c] = [state |-> "dropped", inbox |-> <<>>]]
    /\ UNCHANGED <<config, app_config, opportunities, opportunities_count, ws_clients,
                   fwd_taken, fwd_cur, trade_app_vars, det_vars, exec_vars, conn_vars>>

\* WsMessage::Trade(trade) as the clients see it
TradeMsg(trade) == [type |-> "trade", id |-> trade.opportunity_id]

\* a plausible slip of add_trade below: the gross profit is accumulated
add_trade_gross(trade) ==
    /\ trades_count' = trades_count + 1
    /\ app_total_profit' = app_total_profit + trade.gross_profit
    /\ broadcast(TradeMsg(trade))
    /\ app_trades' = Append(app_trades, trade)

\* AppState::add_trade
add_trade(trade) ==
    /\ trades_count' = trades_count + 1
    /\ app_total_profit' = app_total_profit + trade.net_profit
    /\ broadcast(TradeMsg(trade))
    /\ app_trades' = Append(app_trades, trade)

\* the trade forwarder task of main: trade_rx.recv() returns the next trade the
\* executor sent and state.add_trade(trade).await records it
TradeFwd ==
    /\ trade_taken < Len(trade_ch)
    /\ add_trade(trade_ch[trade_taken + 1])
    /\ trade_taken' = trade_taken + 1
    /\ UNCHANGED <<config, app_config, opportunities, opportunities_count, fwd_taken,
                   fwd_cur, det_vars, exec_vars, conn_vars>>

---------------------------------------------------------------------------
(* initial values of the groups of variables *)

\* AppState::new(config.clone()); the forwarder task has received nothing
AppInit ==
    /\ app_config = config
    /\ opportunities = <<>>
    /\ opportunities_count = 0
    /\ ws_clients = <<>>
    /\ client_rx = [c \in Client |-> [state |-> "none", inbox |-> <<>>]]
    /\ fwd_taken = 0
    /\ fwd_cur = <<>>
    /\ app_trades = <<>>
    /\ trades_count = 0
    /\ app_total_profit = D(0)
    /\ trade_taken = 0

DetInit ==
    /\ sub_ch = [v \in Exchange |-> <<>>]
    /\ det_pc = [v \in Exchange |-> "recv"]
    /\ det_cur = [v \in Exchange |-> <<>>]
    /\ prices = [v \in Exchange |-> <<>>]
    /\ ticker_ch = <<>>
    /\ opp_ch = <<>>
    /\ evals = <<>>
    /\ uuid = 0
    /\ wire = 0

ExecInit ==
    /\ opp_rx = <<>>
    /\ exec_pc = "recv"
    /\ exec_opp = <<>>
    /\ orders = <<>>
    /\ handled = <<>>
    /\ trades = <<>>
    /\ trade_ch = <<>>
    /\ total_trades = 0
    /\ total_profit = D(0)
    /\ daily_loss = D(0)
    /\ last_trade_at = <<>>
    /\ now = 0

ConnInit ==
    /\ conn_pc = [v \in Exchange |-> "connecting"]
    /\ rx_alive = [v \in Exchange |-> TRUE]
    /\ hb_alive = [v \in Exchange |-> {}]
    /\ last_bid = D(0)
    /\ last_ask = D(0)
    /\ seen = [bid |-> FALSE, ask |-> FALSE]
    /\ pings = [v \in Exchange |-> <<>>]
    /\ conn_log = [v \in Exchange |-> <<"connect">>]

---------------------------------------------------------------------------
(* SpecDet *)

InitDet == config \in DetConfigs /\ AppInit /\ DetInit /\ ExecInit /\ ConnInit

\* the detector never reads a ticker's timestamp: one reading stands for all
DetStamps == {0}

NextDet ==
    \/ \E v \in Exchange, bid \in Quotes, ask \in Quotes, ts \in DetStamps :
          ConnEmit(v, bid, ask, ts)
    \/ \E v \in Exchange : DetInsert(v)
    \/ \E v \in Exchange : DetPublish(v)
    \/ \E v \in Exchange : DetCheck(v)

SpecDet == InitDet /\ [][NextDet]_vars

---------------------------------------------------------------------------
(* SpecCache: the detector tasks under one configuration, the tickers        *)
(* stamped with any readings of the wall clock                               *)

InitCache == config \in DetConfigs /\ config.min_spread_pct = D(0)
             /\ config.fee_pct = [v \in Exchange |-> D(0)]
             /\ AppInit /\ DetInit /\ ExecInit /\ ConnInit

NextCache ==
    \/ \E v \in Exchange, bid \in Quotes, ask \in Quotes, ts \in Stamps :
          ConnEmit(v, bid, ask, ts)
    \/ \E v \in Exchange : DetInsert(v)
    \/ \E v \in Exchange : DetPublish(v)
    \/ \E v \in Exchange : DetCheck(v)

SpecCache == InitCache /\ [][NextCache]_vars

---------------------------------------------------------------------------
(* SpecExec *)

Delays == {0, 1}

\* <<ask of the buy venue, bid of the sell venue>> of the tickers behind the
\* opportunities that arrive
ExecQuotes == {<<D(1), D(2)>>, <<D(2), D(2)>>}

InitExec == config \in ExecConfigs /\ AppInit /\ DetInit /\ ExecInit /\ ConnInit

NextExec ==
    \/ \E bv \in Exchange, sv \in Exchange, q \in ExecQuotes :
          OppArrives(bv, sv, q[1], q[2])
    \/ Tick
    \/ \E d1 \in Delays, d2 \in Delays : ExecRecv(d1, d2)
    \/ \E i \in 1..(2 * MaxOpps), res \in {"ok", "err"} : OrderDone(i, res)
    \/ \E d1 \in Delays, d2 \in Delays : ExecJoin(d1, d2)

SpecExec == InitExec /\ [][NextExec]_vars

---------------------------------------------------------------------------
(* SpecCtl: configuration updates while the engine runs in simulation mode *)

InitCtl ==
    /\ config \in ExecConfigs
    /\ config.min_spread_pct = D(0 - 100)
    /\ config.simulation_mode
    /\ config.max_trade_qty = D(1)
    /\ config.max_daily_loss = D(100)
    /\ config.trade_cooldown_ms = 0
    /\ AppInit /\ DetInit /\ ExecInit /\ ConnInit

NextCtl ==
    \/ \E body \in ConfigUpdate : UpdateConfig(body)
    \/ \E bv \in Exchange, sv \in Exchange, q \in ExecQuotes :
          OppArrives(bv, sv, q[1], q[2])
    \/ \E d1 \in Delays, d2 \in Delays : ExecRecv(d1, d2)

SpecCtl == InitCtl /\ [][NextCtl]_vars

---------------------------------------------------------------------------
(* SpecConn *)

InitConn == config \in DetConfigs /\ config.min_spread_pct = D(0)
            /\ config.fee_pct = [v \in Exchange |-> D(0)]
            /\ AppInit /\ DetInit /\ ExecInit /\ ConnInit

NextConn ==
    \/ \E v \in Exchange : ConnectOk(v)
    \/ \E v \in Exchange : ConnectFail(v)
    \/ \E v \in Exchange : SubscribeOk(v)
    \/ \E v \in Exchange : SubscribeFail(v)
    \/ \E v \in Exchange : HeartbeatEnds(v)
    \/ \E ts \in DetStamps : BybitText(BybitFull, ts)
    \/ \E ts \in DetStamps : BitgetText(BitgetFull, ts)
    \/ \E v \in Exchange, event \in {"socket_error", "socket_closed"} : SocketDown(v, event)
    \/ \E v \in Exchange : SleepDone(v)
    \/ \E v \in Exchange : DropReceiver(v)

SpecConn == InitConn /\ [][NextConn]_vars

---------------------------------------------------------------------------
(* SpecBeat: the subscription tasks and their heartbeat tasks *)

NextBeat ==
    \/ \E v \in Exchange : ConnectOk(v)
    \/ \E v \in Exchange : SubscribeOk(v)
    \/ \E v \in Exchange : HeartbeatPing(v)
    \/ \E v \in Exchange : HeartbeatEnds(v)
    \/ \E v \in Exchange, event \in {"socket_error", "socket_closed"} : SocketDown(v, event)
    \/ \E v \in Exchange : SleepDone(v)

SpecBeat == InitConn /\ [][NextBeat]_vars

---------------------------------------------------------------------------
(* SpecHist: add_opportunity called more often than the history holds *)

InitHist == InitCache

NextHist == \E q \in {<<D(1), D(2)>>} : AddOpportunity(q[1], q[2])

SpecHist == InitHist /\ [][NextHist]_vars

---------------------------------------------------------------------------
(* SpecApp: the detector, the forwarder of opportunities and the UI clients. *)
(* The forwarder is a spawned task that is scheduled whenever it can run.    *)

InitApp ==
    /\ config \in DetConfigs
    /\ config.min_spread_pct = D(0 - 100)
    /\ config.fee_pct = [v \in Exchange |-> D(0)]
    /\ AppInit /\ DetInit /\ ExecInit /\ ConnInit

\* the forwarder never reads a quote: one book stands for all
AppQuotes == {<<D(1), D(2)>>}

NextApp ==
    \/ \E v \in Exchange, q \in AppQuotes, ts \in DetStamps :
          ConnEmit(v, q[1], q[2], ts)
    \/ \E v \in Exchange : DetInsert(v)
    \/ \E v \in Exchange : DetPublish(v)
    \/ \E v \in Exchange : DetCheck(v)
    \/ FwdRecord
    \/ FwdSend
    \/ \E c \in Client : WsConnect(c)
    \/ \E c \in Client : WsDeliver(c)
    \/ \E c \in Client : WsGone(c)

SpecApp == InitApp /\ [][NextApp]_vars /\ WF_vars(FwdRecord) /\ WF_vars(FwdSend)

---------------------------------------------------------------------------
(* SpecPipe: the detector, the two forwarders and the executor in            *)
(* simulation mode; the forwarders are spawned tasks that are scheduled      *)
(* whenever they can run                                                      *)

InitPipe ==
    /\ config \in ExecConfigs
    /\ config.simulation_mode
    /\ config.max_trade_qty = D(1)
    /\ config.max_daily_loss = D(100)
    /\ config.trade_cooldown_ms = 0
    /\ AppInit /\ DetInit /\ ExecInit /\ ConnInit

\* the books the venues quote: <<bid, ask>>
PipeQuotes == {<<D(1), D(1)>>, <<D(2), D(2)>>}

NextPipe ==
    \/ \E v \in Exchange, q \in PipeQuotes, ts \in DetStamps :
          ConnEmit(v, q[1], q[2], ts)
    \/ \E v \in Exchange : DetInsert(v)
    \/ \E v \in Exchange : DetPublish(v)
    \/ \E v \in Exchange : DetCheck(v)
    \/ FwdRecord
    \/ FwdSend
    \/ ExecRecv(0, 0)
    \/ TradeFwd

SpecPipe == InitPipe /\ [][NextPipe]_vars /\ WF_vars(TradeFwd)

---------------------------------------------------------------------------
(* SpecStale: the subscription tasks, whose sockets may close, feeding the   *)
(* detector tasks                                                             *)

NextStale ==
    \/ \E v \in Exchange : ConnectOk(v)
    \/ \E v \in Exchange : SubscribeOk(v)
    \/ \E ts \in Stamps : BybitText(BybitFull, ts)
    \/ \E ts \in Stamps : BitgetText(BitgetFull, ts)
    \/ \E v \in Exchange : SocketDown(v, "socket_closed")
    \/ \E v \in Exchange : SleepDone(v)
    \/ \E v \in Exchange : DetInsert(v)
    \/ \E v \in Exchange : DetPublish(v)
    \/ \E v \in Exchange : DetCheck(v)

SpecStale == InitConn /\ [][NextStale]_vars

---------------------------------------------------------------------------
(* SpecClock: the executor in simulation mode under a wall clock that may be *)
(* set back                                                                   *)

InitClock == config \in ExecConfigs /\ config.simulation_mode
             /\ AppInit /\ DetInit /\ ExecInit /\ ConnInit

NextClock ==
    \/ \E bv \in Exchange, sv \in Exchange, q \in ExecQuotes :
          OppArrives(bv, sv, q[1], q[2])
    \/ Tick
    \/ \E t \in 0..MaxTime : ClockBack(t)
    \/ ExecRecv(0, 0)

SpecClock == InitClock /\ [][NextClock]_vars

---------------------------------------------------------------------------
(* SpecFeed: the subscription tasks reading every kind of frame, through     *)
(* disconnections and reconnections                                          *)

NextFeed ==
    \/ \E v \in Exchange : ConnectOk(v)
    \/ \E v \in Exchange : SubscribeOk(v)
    \/ \E frame \in BybitFrames, ts \in DetStamps : BybitText(frame, ts)
    \/ \E frame \in BitgetFrames, ts \in DetStamps : BitgetText(frame, ts)
    \/ \E v \in Exchange : SocketDown(v, "socket_closed")
    \/ \E v \in Exchange : SleepDone(v)

SpecFeed == InitConn /\ [][NextFeed]_vars

---------------------------------------------------------------------------
(* Claims about the detector, checked under SpecDet *)

\* the net spread of a direction as the specification defines it:
\* ((sell - buy) / buy) * 100 - (buy_fee_pct + sell_fee_pct), both prices > 0
NetSpreadOf(e) ==
    (100 * Scale * (e.sell.bid - e.buy.ask)) \div e.buy.ask
    - config.fee_pct[e.buy.exchange] - config.fee_pct[e.sell.exchange]

\* C1: for every direction the detector evaluates, an opportunity is sent on
\* the opportunity channel if and only if buy.ask > 0, sell.bid > 0 and the net
\* spread is strictly above config.min_spread_pct; the opportunity channel
\* carries exactly what the evaluations sent, at most one per direction.
C1_EmissionGate ==
    /\ \A i \in 1..Len(evals) :
         LET e == evals[i] IN
         /\ Len(e.sent) <= 1
         /\ e.buy.exchange # e.sell.exchange
         /\ (e.sent # <<>>) <=>
              (/\ e.buy.ask > 0
               /\ e.sell.bid > 0
               /\ NetSpreadOf(e) > config.min_spread_pct)
    /\ opp_ch = Sent(evals)

\* C1 witness: one direction was emitted, and another whose net spread equals
\* the threshold was evaluated and emitted nothing
C1_Witness ==
    \E i, j \in 1..Len(evals) :
        /\ evals[i].sent # <<>>
        /\ evals[i].sent[1] = Last(opp_ch)
        /\ NetSpreadOf(evals[j]) = config.min_spread_pct
        /\ evals[j].sent = <<>>

\* C11: a step changes the price cache only when a detector task takes a
\* ticker T of its venue from the subscription channel, and then the entry of
\* that venue becomes T, whatever the timestamps of T and of the entry it
\* replaces, and the entries of the other venues stay as they were; so a
\* lookup returns T until the next ticker of the venue is processed.
C11_CacheOverwrite ==
    [][ \A v \in Exchange :
          IF det_pc[v] = "recv" /\ det_pc'[v] = "publish"
          THEN /\ prices'[v] = <<Head(sub_ch[v])>>
               /\ det_cur'[v] = prices'[v]
          ELSE prices'[v] = prices[v] ]_vars

\* C11 witness: the entry of a venue was overwritten by a ticker with an older
\* timestamp (the replaced ticker was published before)
C11_Witness ==
    \E v \in Exchange, k \in 1..Len(ticker_ch) :
        /\ ticker_ch[k].exchange = v
        /\ prices[v] # <<>>
        /\ prices[v][1].seq > ticker_ch[k].seq
        /\ prices[v][1].timestamp < ticker_ch[k].timestamp

\* C14: every opportunity on the opportunity channel is flagged actionable
\* exactly when its net spread (the field, and the net spread of the direction
\* it was emitted for) is above zero; under a threshold min_spread_pct >= 0
\* every emitted opportunity is actionable.
C14_Actionable ==
    /\ \A i \in 1..Len(evals) :
         evals[i].sent # <<>> =>
            LET o == evals[i].sent[1] IN
            /\ o.is_actionable <=> o.net_spread_pct > 0
            /\ o.is_actionable <=> NetSpreadOf(evals[i]) > 0
    /\ \A k \in 1..Len(opp_ch) :
         /\ opp_ch[k].is_actionable <=> opp_ch[k].net_spread_pct > 0
         /\ config.min_spread_pct >= 0 => opp_ch[k].is_actionable

\* C14 witness: under a negative threshold, an opportunity with a net spread
\* of zero was emitted as not actionable and one with a positive net spread
\* as actionable
C14_Witness ==
    /\ config.min_spread_pct < 0
    /\ \E j, k \in 1..Len(opp_ch) :
         /\ opp_ch[j].net_spread_pct = 0 /\ ~opp_ch[j].is_actionable
         /\ opp_ch[k].net_spread_pct > 0 /\ opp_ch[k].is_actionable

\* C15: every opportunity on the opportunity channel carries the gross spread
\* spread_pct = ((sell_price - buy_price) / buy_price) * 100, exactly
\* (spread_pct * buy_price = 100 * (sell_price - buy_price)), and a net spread
\* with net_spread_pct + buy fee + sell fee = spread_pct, the fees being the
\* fee_pct of the buy venue's and of the sell venue's connector.
C15_Spread ==
    \A k \in 1..Len(opp_ch) :
        LET o == opp_ch[k] IN
        /\ o.buy_price > 0
        /\ o.spread_pct * o.buy_price = 100 * Scale * (o.sell_price - o.buy_price)
        /\ o.net_spread_pct + config.fee_pct[o.buy_exchange]
              + config.fee_pct[o.sell_exchange] = o.spread_pct

\* C15 witness: an opportunity with a gross spread of 100 % between venues of
\* different fees, and one with no gross spread and a negative net spread
C15_Witness ==
    \E j, k \in 1..Len(opp_ch) :
        /\ opp_ch[j].spread_pct = D(100)
        /\ config.fee_pct[opp_ch[j].buy_exchange] # config.fee_pct[opp_ch[j].sell_exchange]
        /\ opp_ch[j].net_spread_pct = D(40)
        /\ opp_ch[k].spread_pct = 0
        /\ opp_ch[k].net_spread_pct = D(0 - 60)

\* the opportunity (if any) that the evaluation e sent is for e's direction:
\* it buys at the ask of e.buy on its venue and sells at the bid of e.sell
OfDirection(e) ==
    \A k \in 1..Len(e.sent) :
        /\ e.sent[k].buy_exchange = e.buy.exchange
        /\ e.sent[k].sell_exchange = e.sell.exchange
        /\ e.sent[k].buy_exchange # e.sent[k].sell_exchange
        /\ e.sent[k].buy_price = e.buy.ask
        /\ e.sent[k].sell_price = e.sell.bid

\* C16: when a detector task checks a ticker T of venue V: if no ticker of the
\* other venue is cached nothing is evaluated; if one (C) is cached, exactly
\* the two directions buy V / sell V' and buy V' / sell V are evaluated, each
\* emitted opportunity has distinct venues, buy_price the ask of the buy
\* venue's ticker and sell_price the bid of the sell venue's ticker, and a bid
\* of T above the ask of C by more than fees and threshold yields the
\* opportunity that buys on V' and sells on V.
C16_BothDirections ==
    [][ \A v \in Exchange :
          (det_pc[v] = "check" /\ det_pc'[v] = "recv") =>
            LET T == det_cur[v][1]
                w == CHOOSE w \in Exchange : w # v
                n == Len(evals)
            IN  IF prices[w] = <<>>
                THEN evals' = evals /\ opp_ch' = opp_ch
                ELSE LET C == prices[w][1] IN
                     /\ Len(evals') = n + 2
                     /\ SubSeq(evals', 1, n) = evals
                     /\ evals'[n + 1].buy = T /\ evals'[n + 1].sell = C
                     /\ evals'[n + 2].buy = C /\ evals'[n + 2].sell = T
                     /\ OfDirection(evals'[n + 1])
                     /\ OfDirection(evals'[n + 2])
                     /\ opp_ch' = opp_ch \o evals'[n + 1].sent \o evals'[n + 2].sent
                     /\ NetSpreadOf(evals'[n + 2]) > config.min_spread_pct
                          => /\ Len(evals'[n + 2].sent) = 1
                             /\ Last(opp_ch').buy_exchange = w
                             /\ Last(opp_ch').sell_exchange = v
                             /\ Last(opp_ch').buy_price = C.ask
                             /\ Last(opp_ch').sell_price = T.bid ]_vars

\* C16 witness: a check evaluated both directions; the incoming venue had the
\* higher bid, the direction buying on it emitted nothing and the reverse
\* direction emitted the opportunity that buys on the cached venue
C16_Witness ==
    \E i \in 1..(Len(evals) - 1) :
        /\ evals[i].buy = evals[i + 1].sell
        /\ evals[i].sell = evals[i + 1].buy
        /\ evals[i].sent = <<>>
        /\ evals[i + 1].sell.bid > evals[i + 1].buy.ask
        /\ evals[i + 1].sell.bid > evals[i + 1].buy.bid
        /\ evals[i + 1].sent # <<>>
        /\ opp_ch # <<>>
        /\ Last(opp_ch).buy_exchange = evals[i + 1].buy.exchange
        /\ Last(opp_ch).sell_price = evals[i].buy.bid

\* the venues whose tickers the detector has processed
Cached == {v \in Exchange : prices[v] # <<>>}

\* C17: while the tickers of at most one venue have been processed (a fortiori
\* while only one venue has published), no direction has been evaluated and
\* no opportunity emitted.
C17_SingleVenue ==
    Cardinality(Cached) <= 1 => (evals = <<>> /\ opp_ch = <<>> /\ uuid = 0)

\* C17 witness: one venue alone has sent two tickers with different quotes,
\* the later one with its bid above the earlier one's ask; both were
\* processed and checked, and nothing was emitted
C17_Witness ==
    \E v \in Exchange :
        /\ Cached = {v}
        /\ Len(ticker_ch) = 2
        /\ ticker_ch[1].exchange = v /\ ticker_ch[2].exchange = v
        /\ ticker_ch[2].bid > ticker_ch[1].ask
        /\ det_pc[v] = "recv"
        /\ sub_ch[v] = <<>>
        /\ opp_ch = <<>>

\* the tickers of venue v that the detector has published, in order
PublishedOf(v) == SelectSeq(ticker_ch, LAMBDA t : t.exchange = v)

\* the tickers of venue v in the order in which they pass the detector:
\* those published, the one received and not yet published, those waiting
\* in the subscription channel
PassOf(v) ==
    PublishedOf(v) \o (IF det_pc[v] = "publish" THEN det_cur[v] ELSE <<>>) \o sub_ch[v]

\* C25: the tickers of a venue pass the detector in the order in which the
\* connector emitted them (seq is the emission number): published, in hand
\* and waiting tickers form a strictly increasing run of emission numbers,
\* every emitted ticker is in the run of its venue, and the cache entry of
\* the venue is the last ticker the detector received from it.
C25_SubscriptionOrder ==
    /\ \A v \in Exchange :
         LET p == PassOf(v)
             got == Len(p) - Len(sub_ch[v])
         IN  /\ \A k \in 1..Len(p) : p[k].exchange = v
             /\ \A j, k \in 1..Len(p) : j < k => p[j].seq < p[k].seq
             /\ prices[v] = (IF got = 0 THEN <<>> ELSE <<p[got]>>)
    /\ \A n \in 1..wire :
         \E v \in Exchange : \E k \in 1..Len(PassOf(v)) : PassOf(v)[k].seq = n

\* two tickers of one venue were published and cached in emission order
C25_Witness ==
    \E v \in Exchange :
        /\ Len(PublishedOf(v)) = 2
        /\ PublishedOf(v)[1].seq = 1
        /\ PublishedOf(v)[2].seq = 2
        /\ PublishedOf(v)[1].bid # PublishedOf(v)[2].bid
        /\ prices[v] = <<PublishedOf(v)[2]>>

\* C26: a detector task handles a ticker in three steps: the insert into the
\* cache, which publishes and emits nothing; the send on the ticker channel,
\* which happens for every ticker received; the check, the only step that
\* emits opportunities, all of them with the checked ticker (already on the
\* ticker channel) as their buy or their sell side.
C26_InsertPublishCheck ==
    [][ /\ \A v \in Exchange :
             /\ (det_pc[v] = "recv" /\ det_pc'[v] # "recv")
                  => /\ det_pc'[v] = "publish"
                     /\ prices'[v] = <<Head(sub_ch[v])>>
                     /\ det_cur'[v] = <<Head(sub_ch[v])>>
                     /\ ticker_ch' = ticker_ch
                     /\ opp_ch' = opp_ch
             /\ (det_pc[v] = "publish" /\ det_pc'[v] # "publish")
                  => /\ det_pc'[v] = "check"
                     /\ ticker_ch' = Append(ticker_ch, det_cur[v][1])
                     /\ det_cur'[v] = det_cur[v]
                     /\ opp_ch' = opp_ch
             /\ (det_pc[v] = "check" /\ det_pc'[v] # "check")
                  => /\ det_pc'[v] = "recv"
                     /\ \E k \in 1..Len(ticker_ch) : ticker_ch[k] = det_cur[v][1]
                     /\ ticker_ch' = ticker_ch
        /\ opp_ch' # opp_ch
             => \E v \in Exchange :
                  /\ det_pc[v] = "check" /\ det_pc'[v] = "recv"
                  /\ \E k \in 1..Len(ticker_ch) : ticker_ch[k] = det_cur[v][1]
                  /\ \A j \in (Len(opp_ch) + 1)..Len(opp_ch') :
                       \/ /\ opp_ch'[j].buy_exchange = v
                          /\ opp_ch'[j].buy_price = det_cur[v][1].ask
                       \/ /\ opp_ch'[j].sell_exchange = v
                          /\ opp_ch'[j].sell_price = det_cur[v][1].bid ]_vars

\* a ticker that yielded no opportunity was published, and a later one that
\* yielded one was published before its opportunity was sent
C26_Witness ==
    /\ Len(ticker_ch) = 2
    /\ Len(evals) = 2
    /\ opp_ch # <<>>
    /\ \A v \in Exchange : det_pc[v] = "recv"

\* a ticker whose ask is not below its bid
Uncrossed(t) == t.ask >= t.bid

\* the k-th and (k+1)-th evaluations are the two directions of one check
SameCheck(k) ==
    /\ k + 1 <= Len(evals)
    /\ evals[k].buy = evals[k + 1].sell
    /\ evals[k].sell = evals[k + 1].buy
    /\ evals[k].buy.exchange # evals[k].sell.exchange

\* C33: when the two tickers of a check are uncrossed and min_spread_pct
\* plus the two venues' fees is not negative, the two directions of the
\* check do not both emit an opportunity.
C33_OneDirection ==
    \A k \in 1..Len(evals) :
        ( /\ k % 2 = 1
          /\ SameCheck(k)
          /\ Uncrossed(evals[k].buy) /\ Uncrossed(evals[k].sell)
          /\ config.min_spread_pct + config.fee_pct[evals[k].buy.exchange]
               + config.fee_pct[evals[k].sell.exchange] >= 0 )
        => ~(evals[k].sent # <<>> /\ evals[k + 1].sent # <<>>)

\* a check of two uncrossed tickers under a threshold of zero without fees
\* emitted one direction
C33_Witness ==
    /\ config.min_spread_pct = D(0)
    /\ config.fee_pct = [v \in Exchange |-> D(0)]
    /\ Len(evals) = 2
    /\ SameCheck(1)
    /\ Uncrossed(evals[1].buy) /\ Uncrossed(evals[1].sell)
    /\ (evals[1].sent # <<>>) # (evals[2].sent # <<>>)

---------------------------------------------------------------------------
(* Claims about the executor, checked under SpecExec *)

SkipReasons == {"not_actionable", "daily_loss", "position", "cooldown"}

\* the ids of the handled opportunities whose outcome is in `outcomes`, in order
RECURSIVE IdsWith(_, _)
IdsWith(h, outcomes) ==
    IF h = <<>> THEN <<>>
    ELSE (IF h[1].outcome \in outcomes THEN <<h[1].id>> ELSE <<>>)
         \o IdsWith(Tail(h), outcomes)

TradeIds == [k \in 1..Len(trades) |-> trades[k].opportunity_id]

InFlight == {i \in 1..Len(orders) : orders[i].result = "pending"}

\* C2: any two consecutive TradeResults are at least trade_cooldown_ms apart
\* (executed_at[n] - executed_at[n-1] >= cooldown, the clock never going back).
C2_Cooldown ==
    \A n \in 2..Len(trades) :
        trades[n].executed_at - trades[n - 1].executed_at
            >= config.trade_cooldown_ms * ClockPerMs

\* C2 witness: a positive cooldown and two trades exactly one cooldown apart
C2_Witness ==
    /\ config.trade_cooldown_ms > 0
    /\ Len(trades) >= 2
    /\ trades[2].executed_at - trades[1].executed_at
           = config.trade_cooldown_ms * ClockPerMs

\* C3: once the accumulated daily loss has reached max_daily_loss, no step
\* produces a TradeResult or places an order, and an opportunity received is
\* rejected (as not actionable or for the loss limit).
C3_DailyLossStop ==
    [][ (daily_loss >= config.max_daily_loss \/ SumLoss(trades) >= config.max_daily_loss)
        => /\ trades' = trades
           /\ trade_ch' = trade_ch
           /\ Len(orders') = Len(orders)
           /\ (handled' # handled
                 => Last(handled').outcome \in {"not_actionable", "daily_loss"}) ]_vars

\* C3 witness: a losing trade brought the daily loss to the limit and a later
\* opportunity was rejected for it
C3_Witness ==
    /\ trades # <<>>
    /\ Last(trades).net_profit < 0
    /\ daily_loss >= config.max_daily_loss
    /\ handled # <<>>
    /\ Last(handled).outcome = "daily_loss"

\* C4: no TradeResult and no order has a quantity above max_position, and an
\* actionable opportunity above it (within the loss limit) is rejected.
C4_MaxPosition ==
    /\ \A k \in 1..Len(trades) : trades[k].quantity <= config.max_position
    /\ \A i \in 1..Len(orders) : orders[i].quantity <= config.max_position
    /\ config.max_trade_qty > config.max_position
         => /\ trades = <<>> /\ orders = <<>> /\ trade_ch = <<>>
            /\ \A k \in 1..Len(handled) :
                 handled[k].outcome \in {"not_actionable", "daily_loss", "position"}

\* C4 witness: in live mode an actionable opportunity was rejected for its size
C4_Witness ==
    /\ ~config.simulation_mode
    /\ \E k \in 1..Len(handled) : handled[k].outcome = "position"

\* C5: in simulation mode place_order is never called, and every opportunity
\* that is not skipped by the actionable, risk or cooldown gate yields a
\* TradeResult with status Filled.
C5_Simulation ==
    config.simulation_mode =>
        /\ orders = <<>>
        /\ exec_pc = "recv"
        /\ \A k \in 1..Len(handled) : handled[k].outcome \in SkipReasons \cup {"Filled"}
        /\ TradeIds = IdsWith(handled, {"Filled"})
        /\ \A k \in 1..Len(trades) : trades[k].status = "Filled"

\* C5 witness: simulation mode, one opportunity skipped and one traded
C5_Witness ==
    /\ config.simulation_mode
    /\ \E k \in 1..Len(handled) : handled[k].outcome = "cooldown"
    /\ \E k \in 1..Len(handled) : handled[k].outcome = "Filled"
    /\ trades # <<>>

\* C6: in live mode, when the join of the two place_order calls returns: both
\* ok gives one TradeResult with status Filled, exactly one ok (either leg)
\* gives one with status PartialFill, both failed gives no TradeResult.
C6_LiveStatus ==
    [][ (exec_pc = "join" /\ exec_pc' = "recv") =>
          LET id   == exec_opp[1].id
              buy  == LegResult(orders, id, "Buy")
              sell == LegResult(orders, id, "Sell")
          IN  /\ ~config.simulation_mode
              /\ buy \in {"ok", "err"} /\ sell \in {"ok", "err"}
              /\ (buy = "ok" /\ sell = "ok")
                   => /\ Len(trades') = Len(trades) + 1
                      /\ Last(trades').status = "Filled"
                      /\ Last(trades').opportunity_id = id
              /\ ((buy = "ok") # (sell = "ok"))
                   => /\ Len(trades') = Len(trades) + 1
                      /\ Last(trades').status = "PartialFill"
                      /\ Last(trades').opportunity_id = id
              /\ (buy = "err" /\ sell = "err")
                   => /\ trades' = trades
                      /\ trade_ch' = trade_ch ]_vars

\* C6 witness: live mode, a PartialFill whose buy leg failed and whose sell
\* leg succeeded, and another opportunity both of whose legs failed
C6_Witness ==
    /\ ~config.simulation_mode
    /\ \E k \in 1..Len(trades) :
         /\ trades[k].status = "PartialFill"
         /\ LegResult(orders, trades[k].opportunity_id, "Buy") = "err"
         /\ LegResult(orders, trades[k].opportunity_id, "Sell") = "ok"
    /\ \E k \in 1..Len(handled) : handled[k].outcome = "both_failed"

\* C9: after each executor step the trade count is the length of the history,
\* total_profit the sum of net_profit over it, daily_loss the sum of
\* |net_profit| over its losing trades, last_trade_at is set once a trade was
\* produced (not before the trade's executed_at), and every result of the
\* history was published on the trade channel, in order.
C9_Accounting ==
    /\ total_trades = Len(trades)
    /\ total_profit = SumNet(trades)
    /\ daily_loss = SumLoss(trades)
    /\ trade_ch = trades
    /\ (last_trade_at = <<>>) <=> (trades = <<>>)
    /\ trades # <<>> => last_trade_at[1] >= Last(trades).executed_at
    /\ TradeIds = IdsWith(handled, {"Filled", "PartialFill"})

\* C9 witness: a live PartialFill with a loss and a Filled trade with a gain
C9_Witness ==
    /\ ~config.simulation_mode
    /\ \E k \in 1..Len(trades) : trades[k].status = "PartialFill" /\ trades[k].net_profit < 0
    /\ \E k \in 1..Len(trades) : trades[k].status = "Filled" /\ trades[k].net_profit > 0

\* C10: opportunities are received in the order they entered the channel, and
\* only one opportunity's orders are in flight: while a place_order call is
\* unanswered the loop is at the join of that opportunity and has received
\* nothing after it.
C10_Fifo ==
    /\ \A k \in 1..Len(handled) : handled[k].id = k
    /\ \A k \in 1..Len(opp_rx) : opp_rx[k].id = Len(handled) + k
    /\ \A i \in InFlight :
         /\ exec_pc = "join"
         /\ exec_opp # <<>>
         /\ orders[i].opp = exec_opp[1].id
         /\ orders[i].opp = Last(handled).id
    /\ exec_pc = "join" =>
         Cardinality({i \in 1..Len(orders) : orders[i].opp = exec_opp[1].id}) = 2

\* C10 witness: one leg answered, the other in flight, the next opportunity
\* waiting in the channel
C10_Witness ==
    /\ exec_pc = "join"
    /\ opp_rx # <<>>
    /\ Cardinality(InFlight) = 1
    /\ Head(opp_rx).is_actionable

\* C13: an opportunity received with is_actionable = false is dropped: it is
\* logged as not actionable, no TradeResult carries its id and no place_order
\* call was made for it.
C13_NonActionableDropped ==
    \A k \in 1..Len(handled) :
        ~handled[k].is_actionable =>
            /\ handled[k].outcome = "not_actionable"
            /\ \A n \in 1..Len(trades) : trades[n].opportunity_id # handled[k].id
            /\ \A n \in 1..Len(trade_ch) : trade_ch[n].opportunity_id # handled[k].id
            /\ \A i \in 1..Len(orders) : orders[i].opp # handled[k].id

\* C13 witness: in live mode a non-actionable opportunity was received and
\* dropped, and an actionable one received after it was traded
C13_Witness ==
    /\ ~config.simulation_mode
    /\ \E k \in 1..Len(handled) :
         /\ ~handled[k].is_actionable
         /\ \E j \in (k + 1)..Len(handled) :
              /\ handled[j].is_actionable
              /\ \E n \in 1..Len(trades) : trades[n].opportunity_id = handled[j].id

\* C23: the trade a step appends to the history is built from the opportunity
\* the executor is handling (the head of the channel, or the one whose orders
\* were joined): same id, venues, prices and quantity; gross_profit =
\* quantity * (sell_price - buy_price); fees = quantity * buy_price *
\* buy_fee / 100 + quantity * sell_price * sell_fee / 100 with the connectors'
\* fee rates; net_profit = gross_profit - fees = the opportunity's
\* potential_profit.
C23_TradeArithmetic ==
    [][ Len(trades') > Len(trades)
        => LET o == IF exec_pc = "recv" THEN Head(opp_rx) ELSE exec_opp[1]
               t == trades'[Len(trades')]
               q == o.quantity
               b == o.buy_price
               a == o.sell_price
               buy_fee  == config.fee_pct[o.buy_exchange]
               sell_fee == config.fee_pct[o.sell_exchange]
           IN  /\ Len(trades') = Len(trades) + 1
               /\ t.opportunity_id = o.id
               /\ t.buy_exchange = o.buy_exchange /\ t.sell_exchange = o.sell_exchange
               /\ t.buy_price = b /\ t.sell_price = a /\ t.quantity = q
               /\ t.status \in {"Filled", "PartialFill"}
               /\ t.gross_profit * Scale = q * (a - b)
               /\ t.fees * Scale * Scale * 100
                    = q * b * buy_fee + q * a * sell_fee
               /\ t.net_profit = t.gross_profit - t.fees
               /\ t.net_profit = o.potential_profit ]_vars

\* a live trade with one failed leg, a price difference and a fee
C23_Witness ==
    /\ ~config.simulation_mode
    /\ \E k \in 1..Len(trades) :
         /\ trades[k].status = "PartialFill"
         /\ trades[k].gross_profit > 0
         /\ trades[k].fees > 0
         /\ trades[k].net_profit # 0

\* C27: in live mode the step that dispatches an opportunity places exactly
\* two orders for it, a Buy on its buy venue and a Sell on its sell venue,
\* both in flight together and none placed for it before; an order is
\* answered once, by Ok or Err, whatever the other leg did; the join returns
\* only when both are answered, places no order and records at most one
\* trade; no opportunity has two trades or two orders on a side.
C27_OneOrderPerLeg ==
    /\ [](/\ \A j, k \in 1..Len(trades) :
               trades[j].opportunity_id = trades[k].opportunity_id => j = k
          /\ \A j, k \in 1..Len(orders) :
               (orders[j].opp = orders[k].opp /\ orders[j].side = orders[k].side) => j = k)
    /\ [][ LET n == Len(orders) IN
           /\ Len(orders') >= n
           /\ Len(orders') > n
                => LET o == Head(opp_rx) IN
                   /\ exec_pc = "recv" /\ exec_pc' = "join"
                   /\ ~config.simulation_mode
                   /\ Len(orders') = n + 2
                   /\ SubSeq(orders', 1, n) = orders
                   /\ \A i \in 1..n : orders[i].opp # o.id
                   /\ orders'[n + 1].opp = o.id /\ orders'[n + 2].opp = o.id
                   /\ orders'[n + 1].side = "Buy"
                   /\ orders'[n + 1].exchange = o.buy_exchange
                   /\ orders'[n + 2].side = "Sell"
                   /\ orders'[n + 2].exchange = o.sell_exchange
                   /\ orders'[n + 1].quantity = o.quantity
                   /\ orders'[n + 2].quantity = o.quantity
                   /\ orders'[n + 1].result = "pending"
                   /\ orders'[n + 2].result = "pending"
           /\ \A i \in 1..n :
                \/ orders'[i] = orders[i]
                \/ /\ orders[i].result = "pending"
                   /\ orders'[i].result \in {"ok", "err"}
                   /\ orders' = [orders EXCEPT ![i].result = orders'[i].result]
           /\ (exec_pc = "join" /\ exec_pc' = "recv")
                => /\ LegResult(orders, exec_opp[1].id, "Buy") \in {"ok", "err"}
                   /\ LegResult(orders, exec_opp[1].id, "Sell") \in {"ok", "err"}
                   /\ orders' = orders
                   /\ Len(trades') <= Len(trades) + 1 ]_vars

\* the buy leg has failed and the sell leg, still in flight, is awaited
C27_Witness ==
    /\ exec_pc = "join"
    /\ LegResult(orders, exec_opp[1].id, "Buy") = "err"
    /\ LegResult(orders, exec_opp[1].id, "Sell") = "pending"

\* C28: the orders of a dispatched opportunity have the type Limit exactly
\* when the configured order_type is the string limit, and Market otherwise;
\* a Limit buy order carries the opportunity's buy_price and a Limit sell
\* order its sell_price.
C28_OrderType ==
    [][ Len(orders') > Len(orders)
        => LET o == Head(opp_rx)
               buy == orders'[Len(orders) + 1]
               sell == orders'[Len(orders) + 2]
           IN  /\ (buy.order_type = "Limit") = (config.order_type = "limit")
               /\ (buy.order_type = "Market") = (config.order_type # "limit")
               /\ sell.order_type = buy.order_type
               /\ buy.order_type = "Limit"
                    => /\ buy.side = "Buy" /\ buy.price = o.buy_price
                       /\ sell.side = "Sell" /\ sell.price = o.sell_price ]_vars

\* limit orders placed with different limit prices on the two legs
C28_Witness ==
    /\ config.order_type = "limit"
    /\ \E i \in 1..Len(orders) :
         /\ orders[i].order_type = "Limit"
         /\ orders[i].side = "Buy"
         /\ orders[i + 1].side = "Sell"
         /\ orders[i + 1].order_type = "Limit"
         /\ orders[i].price < orders[i + 1].price

\* C37: every trade in the executor's history and every trade sent on the
\* trade channel has the status Filled or PartialFill.
C37_StatusFilledOrPartial ==
    /\ \A k \in 1..Len(trades) : trades[k].status \in {"Filled", "PartialFill"}
    /\ \A k \in 1..Len(trade_ch) : trade_ch[k].status \in {"Filled", "PartialFill"}

\* live mode: one opportunity's legs both failed, and another's trade with a
\* failed sell leg is in the history and on the channel
C37_Witness ==
    /\ ~config.simulation_mode
    /\ Len(handled) = 2
    /\ handled[1].outcome = "both_failed"
    /\ Len(trades) = 1
    /\ trades[1].status = "PartialFill"
    /\ trade_ch = trades
    /\ LegResult(orders, trades[1].opportunity_id, "Sell") = "err"

\* C22: when tokio::join! returns with both legs failed, the step records no
\* trade and publishes none, leaves total_trades, total_profit, daily_loss,
\* the trade history and last_trade_at as they were, places no further
\* order, and puts the executor back at recv() with its channel untouched;
\* an opportunity whose legs both failed never has a trade and never has
\* more than its two orders.
C22_BothLegsFail ==
    /\ [](\A k \in 1..Len(handled) :
            handled[k].outcome = "both_failed"
            => /\ handled[k].id \notin {trades[j].opportunity_id : j \in 1..Len(trades)}
               /\ handled[k].id \notin {trade_ch[j].opportunity_id : j \in 1..Len(trade_ch)}
               /\ Cardinality({i \in 1..Len(orders) : orders[i].opp = handled[k].id}) = 2)
    /\ [][ ( /\ exec_pc = "join"
             /\ handled' # handled
             /\ LegResult(orders, exec_opp[1].id, "Buy") = "err"
             /\ LegResult(orders, exec_opp[1].id, "Sell") = "err" )
           => /\ UNCHANGED <<trades, trade_ch, total_trades, total_profit, daily_loss,
                             last_trade_at, orders, opp_rx>>
              /\ exec_pc' = "recv"
              /\ handled'[Len(handled')].outcome = "both_failed" ]_vars

\* an opportunity whose legs both failed was followed by another one that the
\* loop received and traded
C22_Witness ==
    \E k \in 1..Len(handled) :
        /\ handled[k].outcome = "both_failed"
        /\ k < Len(handled)
        /\ handled[k + 1].outcome = "Filled"
        /\ Len(trades) = 1

---------------------------------------------------------------------------
(* Claims about the control path, checked under SpecCtl *)

\* C12: the engine works with the configuration last written by update_config:
\* an opportunity the detector emits has the quantity max_trade_qty of that
\* configuration and a net spread above its min_spread_pct, and the executor
\* simulates a trade only if its simulation_mode is set and places orders only
\* if it is not.
C12_UpdateTakesEffect ==
    [][ /\ Len(opp_rx') > Len(opp_rx) =>
             /\ Last(opp_rx').quantity = app_config.max_trade_qty
             /\ Last(opp_rx').net_spread_pct > app_config.min_spread_pct
        /\ (Len(trades') > Len(trades) /\ exec_pc = "recv") => app_config.simulation_mode
        /\ Len(orders') > Len(orders) => ~app_config.simulation_mode ]_vars

---------------------------------------------------------------------------
(* Claims about the subscription tasks, checked under SpecConn *)

Failures == {"connect_failed", "write_failed", "socket_error", "socket_closed"}

\* C7: a subscription task never terminates while its ticker receiver is
\* alive (so after any failure it can connect again).
C7_NeverTerminates ==
    \A v \in Exchange : rx_alive[v] => conn_pc[v] # "terminated"

\* C8: every failure leads through the 1 s sleep: what follows a failure in
\* the task's log is the sleep, and every connect attempt but the first
\* directly follows a sleep.
C8_BackoffAfterFailure ==
    \A v \in Exchange :
        /\ \A i \in 1..(Len(conn_log[v]) - 1) :
             conn_log[v][i] \in Failures => conn_log[v][i + 1] = "sleep"
        /\ \A i \in 2..Len(conn_log[v]) :
             conn_log[v][i] = "connect" => conn_log[v][i - 1] = "sleep"
        /\ (conn_log[v] # <<>> /\ Last(conn_log[v]) \in Failures)
             => conn_pc[v] = "backoff"

\* C20: the heartbeat task of a subscription runs only while the subscription
\* task is receiving on the connection that spawned it: none is alive while
\* connecting, subscribing, in backoff or after the task ended, and never two
\* at once.
C20_HeartbeatAborted ==
    \A v \in Exchange :
        /\ Cardinality(hb_alive[v]) <= 1
        /\ hb_alive[v] # {} =>
              /\ conn_pc[v] = "receiving"
              /\ hb_alive[v] = {Connection(v)}

\* C20 witness: one subscription lost its socket, slept, connected again and
\* runs the heartbeat of its second connection; the other ended on a dropped
\* receiver with its heartbeat aborted
C20_Witness ==
    \E v, w \in Exchange :
        /\ conn_pc[v] = "receiving"
        /\ hb_alive[v] = {2}
        /\ \E i \in 1..Len(conn_log[v]) : conn_log[v][i] \in {"socket_error", "socket_closed"}
        /\ conn_pc[w] = "terminated"
        /\ Last(conn_log[w]) = "receiver_gone"
        /\ hb_alive[w] = {}

---------------------------------------------------------------------------
(* Claims about the opportunity history, checked under SpecHist, where the   *)
(* n-th opportunity added has the id n                                        *)

\* C24: after add_opportunity returns the history holds at most 1000
\* opportunities: the last min(n, 1000) of the n added so far, in the order in
\* which they were added; opportunities_count is n.
C24_HistoryCap ==
    LET n == opportunities_count
        len == Len(opportunities)
    IN  /\ len <= 1000
        /\ len = (IF n <= 1000 THEN n ELSE 1000)
        /\ \A k \in 1..len : opportunities[k].id = n - len + k

\* two opportunities were evicted
C24_Witness ==
    /\ opportunities_count = 1002
    /\ Len(opportunities) = 1000
    /\ opportunities[1].id = 3
    /\ opportunities[1000].id = 1002

---------------------------------------------------------------------------
(* Claims about the forwarder of opportunities, checked under SpecApp, where *)
(* opp_rx holds everything sent to the executor                               *)

\* C30: the opportunities recorded in the application state are those the
\* forwarder has received, in emission order, each counted once; those sent
\* to the executor are the recorded ones, in the same order, less the one in
\* hand, so each is recorded before it is sent and sent once; whatever the
\* clients do, the detector's check and the forwarder's two steps can run
\* when they have work; and every emitted opportunity is eventually sent to
\* the executor.
C30_RecordedThenForwarded ==
    /\ [](/\ fwd_taken <= Len(opp_ch)
          /\ opportunities_count = fwd_taken
          /\ opportunities = SubSeq(opp_ch, 1, fwd_taken)
          /\ opp_rx \o fwd_cur = opportunities
          /\ (fwd_cur = <<>> /\ fwd_taken < Len(opp_ch)) => ENABLED FwdRecord
          /\ fwd_cur # <<>> => ENABLED FwdSend
          /\ \A v \in Exchange : det_pc[v] = "check" => ENABLED DetCheck(v))
    /\ \A n \in 1..(2 * MaxTicks) :
          (Len(opp_ch) >= n) ~> (Len(opp_rx) >= n /\ opp_rx[n] = opp_ch[n])

\* two opportunities reached the executor in emission order although the
\* only client took the first and went away, and was dropped from the list
\* at the second
C30_Witness ==
    /\ Len(opp_ch) = 2
    /\ opp_rx = opp_ch
    /\ opp_rx[1].id # opp_rx[2].id
    /\ opportunities_count = 2
    /\ client_rx["ui"].state = "dropped"
    /\ ws_clients = <<>>

---------------------------------------------------------------------------
(* Claims about the trade forwarder, checked under SpecPipe *)

\* C31: the trade history of the application state is what the forwarder has
\* received from the trade channel, which is what the executor produced, in
\* production order, each trade once; trades_count and total_profit of the
\* application state are the count and the sum of net_profit of that
\* history, and equal the executor's once the channel is drained; every
\* trade produced is eventually in the history.
C31_TradesForwarded ==
    /\ [](/\ trade_ch = trades
          /\ trade_taken <= Len(trade_ch)
          /\ app_trades = SubSeq(trades, 1, trade_taken)
          /\ trades_count = Len(app_trades)
          /\ app_total_profit = SumNet(app_trades)
          /\ trade_taken = Len(trade_ch)
               => /\ trades_count = total_trades
                  /\ app_total_profit = total_profit)
    /\ \A n \in 1..(2 * MaxTicks) :
          (Len(trades) >= n) ~> (Len(app_trades) >= n /\ app_trades[n] = trades[n])

\* two trades with fees were produced and both are in the history
C31_Witness ==
    /\ Len(trades) = 2
    /\ app_trades = trades
    /\ trades[1].fees > 0
    /\ trades_count = 2
    /\ app_total_profit = total_profit
    /\ app_total_profit # D(0)

\* C36: trades_count of the application state never exceeds its
\* opportunities_count: the trades it holds come from distinct opportunities,
\* each of which is in the opportunity history (counted) and was sent to the
\* executor after that.
C36_TradesWithinOpportunities ==
    /\ trades_count <= opportunities_count
    /\ Len(opportunities) <= opportunities_count
    /\ \A j, k \in 1..Len(app_trades) :
         app_trades[j].opportunity_id = app_trades[k].opportunity_id => j = k
    /\ \A k \in 1..Len(app_trades) :
         \E i \in 1..Len(opportunities) :
             opportunities[i].id = app_trades[k].opportunity_id

\* every opportunity recorded was traded and every trade has reached the
\* application state: the two counts are equal
C36_Witness ==
    /\ trades_count = 2
    /\ opportunities_count = 2
    /\ Len(app_trades) = 2
    /\ app_trades[1].opportunity_id # app_trades[2].opportunity_id

\* C32: every emitted opportunity that is actionable has a positive
\* potential_profit, every trade has a positive net_profit, and daily_loss
\* stays at zero.
C32_ActionableIsProfitable ==
    /\ \A k \in 1..Len(opp_ch) :
         opp_ch[k].is_actionable => opp_ch[k].potential_profit > D(0)
    /\ \A k \in 1..Len(trades) : trades[k].net_profit > D(0)
    /\ daily_loss = D(0)

---------------------------------------------------------------------------
(* Claims about the price cache when sockets close, checked under SpecStale *)

\* C34: a cache entry is never removed: a venue that has an entry keeps one,
\* and the entry changes only when the detector task of that venue inserts
\* the ticker it received; a check of a ticker of one venue evaluates both
\* directions against the entry of the other venue whenever there is one,
\* whatever its timestamp and whatever the state of that venue's socket.
C34_CacheKept ==
    [][ \A v \in Exchange :
          /\ prices[v] # <<>> => prices'[v] # <<>>
          /\ prices'[v] # prices[v]
               => /\ det_pc[v] = "recv"
                  /\ sub_ch[v] # <<>>
                  /\ prices'[v] = <<Head(sub_ch[v])>>
          /\ (det_pc[v] = "check" /\ det_pc'[v] = "recv")
               => LET w == CHOOSE w \in Exchange : w # v
                      n == Len(evals)
                  IN  prices[w] # <<>>
                      => /\ Len(evals') = n + 2
                         /\ evals'[n + 1].buy = det_cur[v][1]
                         /\ evals'[n + 1].sell = prices[w][1]
                         /\ evals'[n + 2].buy = prices[w][1]
                         /\ evals'[n + 2].sell = det_cur[v][1] ]_vars

\* the socket of one venue has closed, and a later ticker of the other venue
\* has been checked against the entry that venue left in the cache
C34_Witness ==
    \E v, w \in Exchange :
        /\ conn_pc[w] = "backoff"
        /\ conn_pc[v] = "receiving"
        /\ evals # <<>>
        /\ Last(evals).sell.exchange = v
        /\ Last(evals).buy = prices[w][1]
        /\ Last(evals).buy.timestamp < Last(evals).sell.timestamp
        /\ Last(evals).buy.seq < Last(evals).sell.seq

---------------------------------------------------------------------------
(* Claims about the executor under a clock that may be set back, checked     *)
(* under SpecClock                                                            *)

\* C35: under a positive cooldown a step that produces a trade after an
\* earlier one reads the clock at least trade_cooldown_ms after
\* last_trade_at; in particular no trade is produced while the clock reads
\* earlier than last_trade_at.
C35_CooldownClockBack ==
    [][ ( /\ Len(trades') > Len(trades)
          /\ last_trade_at # <<>>
          /\ config.trade_cooldown_ms > 0 )
        => now - last_trade_at[1] >= config.trade_cooldown_ms * ClockPerMs ]_vars

---------------------------------------------------------------------------
(* Claims about the heartbeat tasks, checked under SpecBeat *)

\* C21: a subscription that is receiving has the heartbeat task of its
\* connection running, and no other; every liveness frame was written by the
\* heartbeat of a connection after a sleep of 20 s (Bybit) or 25 s (Bitget)
\* and is {"op":"ping"} (Bybit) or ping (Bitget).
C21_HeartbeatKeepsWriting ==
    \A v \in Exchange :
        /\ conn_pc[v] = "receiving" => hb_alive[v] = {Connection(v)}
        /\ \A k \in 1..Len(pings[v]) :
             /\ pings[v][k].connection \in 1..Connection(v)
             /\ pings[v][k].slept = (IF v = "Bybit" THEN 20 ELSE 25)
             /\ pings[v][k].frame = (IF v = "Bybit" THEN "{\"op\":\"ping\"}" ELSE "ping")

---------------------------------------------------------------------------
(* Claims about the frames read by the subscription tasks, checked under     *)
(* SpecFeed                                                                  *)

\* C18: every ticker on the subscription channel of a venue is of that venue
\* and has bid > 0 and ask > 0.
C18_PositiveQuotes ==
    \A v \in Exchange : \A k \in 1..Len(sub_ch[v]) :
        /\ sub_ch[v][k].exchange = v
        /\ sub_ch[v][k].bid > 0
        /\ sub_ch[v][k].ask > 0

\* C18 witness: Bitget published a ticker, and Bybit published one whose ask
\* is the lastPrice, no ask having been seen
C18_Witness ==
    /\ Len(sub_ch["Bitget"]) = 1
    /\ sub_ch["Bitget"][1].ask = D(2)
    /\ sub_ch["Bybit"] # <<>>
    /\ sub_ch["Bybit"][1].ask = D(2)
    /\ last_ask = D(0)

\* C19: a step of the Bybit task that publishes a ticker publishes positive
\* quotes, and either both a bid and an ask have been seen on the connection
\* (the ticker carries them) or neither has (lastPrice stands for both): no
\* ticker has one side last-known and the other taken from lastPrice.
C19_NoMixedTicker ==
    [][ Len(sub_ch'["Bybit"]) > Len(sub_ch["Bybit"]) =>
          /\ Last(sub_ch'["Bybit"]).bid > 0
          /\ Last(sub_ch'["Bybit"]).ask > 0
          /\ (last_bid' > 0) <=> (last_ask' > 0)
          /\ last_bid' > 0 => Last(sub_ch'["Bybit"]).bid = last_bid'
          /\ last_ask' > 0 => Last(sub_ch'["Bybit"]).ask = last_ask' ]_vars

\* a field that is present and is not a number
Unparseable(field) == field # <<>> /\ parse(field[1]) = <<>>

\* C29: a step in which a connector reads a data frame whose bid or ask is an
\* unparseable string sends no ticker (Bybit: the frame; Bitget: a frame of
\* one item).
C29_UnparseableEmitsNothing ==
    [][ /\ \A f \in BybitFrames, ts \in Stamps :
             ( /\ f.kind = "data"
               /\ Unparseable(f.bid) \/ Unparseable(f.ask)
               /\ BybitText(f, ts) )
             => sub_ch' = sub_ch
        /\ \A f \in BitgetFrames, ts \in Stamps :
             ( /\ f.kind = "data"
               /\ Len(f.data) = 1
               /\ Unparseable(f.data[1].bid) \/ Unparseable(f.data[1].ask)
               /\ BitgetText(f, ts) )
             => sub_ch' = sub_ch ]_vars

\* ---------------------------------------------------------------------
\* Claim about the Bybit task's tracked quotes across connections, checked
\* under SpecFeed

\* the lastPrice of a frame, zero when absent or not a number
LastPriceOf(f) ==
    IF f.last = <<>> \/ parse(f.last[1]) = <<>> THEN D(0) ELSE parse(f.last[1])[1]

\* C38: the step that starts reading a Bybit connection leaves last_bid and
\* last_ask at zero; while a connection is read, a tracked side above zero was
\* set by a frame of that connection; and a ticker published before a frame of
\* the connection carried a side has the frame's lastPrice on that side: no
\* quote received on an earlier connection is published.
C38_NoQuoteAcrossConnections ==
    [][ /\ (conn_pc["Bybit"] = "subscribing" /\ conn_pc'["Bybit"] = "receiving")
             => last_bid' = D(0) /\ last_ask' = D(0)
        /\ conn_pc'["Bybit"] = "receiving"
             => /\ last_bid' > D(0) => seen'.bid
                /\ last_ask' > D(0) => seen'.ask
        /\ \A f \in BybitFrames, ts \in Stamps :
             ( /\ BybitText(f, ts)
               /\ Len(sub_ch'["Bybit"]) > Len(sub_ch["Bybit"]) )
             => /\ ~seen'.bid => Last(sub_ch'["Bybit"]).bid = LastPriceOf(f)
                /\ ~seen'.ask => Last(sub_ch'["Bybit"]).ask = LastPriceOf(f) ]_vars

\* C38 witness: the first connection published the quotes 1/1 it had
\* received (lastPrice is never 1), the socket closed, and the second
\* connection is being read with last_bid and last_ask back at zero
C38_Witness ==
    /\ Connection("Bybit") = 2
    /\ conn_pc["Bybit"] = "receiving"
    /\ Len(sub_ch["Bybit"]) = 1
    /\ sub_ch["Bybit"][1].bid = D(1) /\ sub_ch["Bybit"][1].ask = D(1)
    /\ ~seen.bid /\ ~seen.ask
    /\ last_bid = D(0) /\ last_ask = D(0)

====
